---- MODULE Spec2Model ----
(***************************************************************************)
(* Model of the ChatGPT Telegram bot handlers (src/bot): the orchestrator  *)
(* state (usage, last_message, inline_queries_cache), the command and      *)
(* message handlers, the access/budget gate and the streaming delivery     *)
(* loop shared by prompt, vision and the inline callback.                  *)
(*                                                                         *)
(* Texts are sequences of one-character strings; a streamed answer is a    *)
(* prefix of the reference text RefText, so that a message's content is    *)
(* identified by the characters it holds.  A handler invocation is one     *)
(* action; what it sent, called and recorded is kept in ev.                *)
(*                                                                         *)
(* Specifications: Spec (prompt and resend), SpecMedia (image, tts,        *)
(* transcribe, vision, stats), SpecGate (the gate of every handler),       *)
(* SpecInline (inline queries, their callback, help) and SpecStream (the   *)
(* streaming loop, one pair per step).  SpecTasks interleaves handler      *)
(* tasks at their awaits.                                                  *)
(***************************************************************************)
EXTENDS Integers, Sequences, FiniteSets, TLC

VARIABLES config, usage, last_message, inline_queries_cache, issued, ev, sm,
          tasks, disk

vars == <<config, usage, last_message, inline_queries_cache, issued, ev, sm,
          tasks, disk>>

(***************************************************************************)
(* Bounds of the model.                                                    *)
(***************************************************************************)
\* scaled-down platform message-length limit (4096 in the deployment)
MsgLimit == 3
\* longest streamed answer: more than two chunks
MaxText == 7
\* largest token count a backend call reports
MaxTokens == 2
\* budget ceiling of every user, in cost units
Budget == 2
\* inline-query result identifiers that can be issued
MaxIds == 2
\* pairs consumed in one streaming turn
MaxPairs == 4
\* duration of an audio attachment, in seconds
AudioSeconds == 1
\* longest configured list of plugin names
MaxPlugins == 2
\* handler tasks alive at the same time
NTasks == 3
\* budget ceiling of the configurations of the media handlers
MediaBudget == 1

(***************************************************************************)
(* Program constants.                                                      *)
(***************************************************************************)
BackoffStep == 5
\* inline queries shorter than this are ignored
MinQueryLen == 3

(***************************************************************************)
(* Text helpers (Python str operations used by the handlers).              *)
(***************************************************************************)
LowerChar(c) == IF c = "K" THEN "k" ELSE IF c = "H" THEN "h" ELSE c

lower(s) == [j \in 1..Len(s) |-> LowerChar(s[j])]

startswith(s, p) == Len(p) <= Len(s) /\ SubSeq(s, 1, Len(p)) = p

IsSpace(c) == c = " "

RECURSIVE lstrip(_)
lstrip(s) == IF s # <<>> /\ IsSpace(Head(s)) THEN lstrip(Tail(s)) ELSE s

RECURSIVE rstrip(_)
rstrip(s) ==
    IF s # <<>> /\ IsSpace(s[Len(s)]) THEN rstrip(SubSeq(s, 1, Len(s) - 1)) ELSE s

strip(s) == rstrip(lstrip(s))

\* s[n:] of Python
drop(s, n) == IF n >= Len(s) THEN <<>> ELSE SubSeq(s, n + 1, Len(s))

\* s[:n] of Python
take(s, n) == IF n >= Len(s) THEN s ELSE SubSeq(s, 1, n)

\* str(user_id): the decimal digits of a user identifier below 100
Digit(d) == <<"0", "1", "2", "3", "4", "5", "6", "7", "8", "9">>[d + 1]

str(n) == IF n < 10 THEN <<Digit(n)>> ELSE <<Digit(n \div 10), Digit(n % 10)>>

\* s.split(sep): the fields of s between separators
RECURSIVE split(_, _, _)
split(s, sep, cur) ==
    IF s = <<>> THEN <<cur>>
    ELSE IF Head(s) = sep THEN <<cur>> \o split(Tail(s), sep, <<>>)
    ELSE split(Tail(s), sep, Append(cur, Head(s)))

Elems(q) == {q[j] : j \in 1..Len(q)}

(***************************************************************************)
(* Utility library (utils.py is not part of src/): modelled from the       *)
(* specification's description of each helper.                             *)
(***************************************************************************)
\* split_into_chunks: consecutive chunks of at most MsgLimit characters
RECURSIVE split_into_chunks(_)
split_into_chunks(text) ==
    IF text = <<>> THEN <<>>
    ELSE <<take(text, MsgLimit)>> \o split_into_chunks(drop(text, MsgLimit))

\* get_stream_cutoff_values: the length-delta threshold of a streamed edit;
\* larger in group chats and for longer content
get_stream_cutoff_values(isGroup, content) ==
    (IF isGroup THEN 1 ELSE 0) + (IF Len(content) > MsgLimit - 1 THEN 1 ELSE 0)

(***************************************************************************)
(* Streaming delivery loop of prompt, vision._execute and                  *)
(* handle_callback_inline_query.                                           *)
(***************************************************************************)
Alphabet == <<" ", "a", "b", "c", "d", "e", "f", "g", "i", "j", "l", "m">>

\* the streamed answer after n characters
RefText(n) == [j \in 1..n |-> Alphabet[j]]

\* total_tokens before any assignment in vision._execute (an unbound local)
Unbound == -1

\* text shown above the answer in an inline message: f'{query}\n\n{answer_tr}:\n'
InlineHeader(query) == query \o <<":">>

\* md_rejected: the platform rejects the Markdown of the text and accepts
\* the same text as plain text
EditOutcomes == {"ok", "retry_after", "timed_out", "error", "md_rejected"}

SendOutcomes == {"ok", "error"}

\* outcome of the platform calls made for one pair: a for the edit or delete,
\* b for the send
Failures == [a : EditOutcomes, b : SendOutcomes]

NoFailure == [a |-> "ok", b |-> "ok"]

\* local variables of the loop, the bot's messages of the turn (msgs) and
\* the platform calls made for the last pair (ops)
LoopInit(mode, query) ==
    [i |-> 0, prev |-> <<>>, sent |-> IF mode = "inline" THEN 1 ELSE 0,
     backoff |-> 0, stream_chunk |-> 0,
     total_tokens |-> IF mode = "vision" THEN Unbound ELSE 0,
     msgs |-> IF mode = "inline"
              THEN <<[text |-> query, deleted |-> FALSE, md |-> FALSE]>>
              ELSE <<>>,
     ops |-> <<>>, returned |-> FALSE]

Op(kind, text, md, ok) == [op |-> kind, text |-> text, md |-> md, ok |-> ok]

\* edit_message_with_retry on the message sent_message refers to: one edit,
\* repeated once in plain text when the platform rejects the Markdown
EditSent(s, text, md, outcome) ==
    IF s.sent = 0
    THEN [st |-> s, ok |-> FALSE]
    ELSE LET live  == ~s.msgs[s.sent].deleted
             retry == md /\ outcome = "md_rejected"
             ok    == live /\ (outcome = "ok" \/ outcome = "md_rejected")
             s1    == IF retry
                      THEN [s EXCEPT !.ops = @ \o <<Op("edit", text, TRUE, FALSE),
                                                    Op("edit", text, FALSE, ok)>>]
                      ELSE [s EXCEPT !.ops = Append(@, Op("edit", text, md, ok))]
         IN  [st |-> IF ok
                     THEN [s1 EXCEPT !.msgs[s.sent].text = text,
                                     !.msgs[s.sent].md = md /\ ~retry]
                     ELSE s1,
              ok |-> ok]

\* update.effective_message.reply_text
SendNew(s, text, outcome) ==
    LET ok == outcome = "ok"
        s1 == [s EXCEPT !.ops = Append(@, Op("send", text, FALSE, ok))]
    IN  [st |-> IF ok
                THEN [s1 EXCEPT !.msgs = Append(@, [text |-> text,
                                                    deleted |-> FALSE,
                                                    md |-> FALSE]),
                                !.sent = Len(s.msgs) + 1]
                ELSE s1,
         ok |-> ok]

\* context.bot.delete_message on the message sent_message refers to
DeleteSent(s, outcome) ==
    LET ok == outcome = "ok" /\ ~s.msgs[s.sent].deleted
        s1 == [s EXCEPT !.ops = Append(@, Op("delete", <<>>, FALSE, ok))]
    IN  [st |-> IF ok THEN [s1 EXCEPT !.msgs[s.sent].deleted = TRUE] ELSE s1,
         ok |-> ok]

\* the end of the loop body: i += 1 and the capture of the token marker
Advance(s, pair) ==
    [s EXCEPT !.i = @ + 1,
              !.total_tokens = IF pair.final THEN pair.tokens ELSE @]

\* an overflow split that does not finalize the previous chunk
OverflowSplitUnfinalized(s, chunks, f) ==
    SendNew([s EXCEPT !.stream_chunk = @ + 1], chunks[Len(chunks)], f.b).st

\* overflow split: finalize the previous chunk, start a new message
OverflowSplit(s, chunks, f) ==
    LET s1 == [s EXCEPT !.stream_chunk = @ + 1]
        e  == EditSent(s1, chunks[Len(chunks) - 1], TRUE, f.a)
        n  == SendNew(e.st, chunks[Len(chunks)], f.b)
    IN  n.st

\* a first chunk whose failure adds to the backoff
FirstChunkBackingOff(s, content, pair, f, mode, query) ==
    LET n == SendNew(s, content, f.b)
    IN  IF n.ok THEN Advance(n.st, pair)
        ELSE [n.st EXCEPT !.backoff = @ + BackoffStep]

\* first chunk (i = 0)
FirstChunk(s, content, pair, f, mode, query) ==
    IF mode = "inline"
    THEN LET e == EditSent(s, InlineHeader(query) \o content, TRUE, f.a)
         IN  IF e.ok THEN Advance(e.st, pair) ELSE e.st
    ELSE LET d == IF s.sent # 0 THEN DeleteSent(s, f.a) ELSE [st |-> s, ok |-> TRUE]
             n == SendNew(d.st, content, f.b)
         IN  IF ~d.ok THEN d.st
             ELSE IF ~n.ok THEN n.st
             ELSE Advance(n.st, pair)

\* a throttled edit that is made again when it fails
ThrottledEditRetrying(s, content, pair, f, mode, query) ==
    LET s1 == [s EXCEPT !.prev = content]
        e  == EditSent(s1, content, FALSE, f.a)
        r  == EditSent(e.st, content, FALSE, f.a)
    IN  IF e.ok THEN Advance(e.st, pair)
        ELSE [r.st EXCEPT !.backoff = @ + BackoffStep]

\* subsequent chunks: the throttled edit
ThrottledEdit(s, content, pair, f, mode, query) ==
    LET s1   == [s EXCEPT !.prev = content]
        text == IF mode = "inline"
                THEN take(InlineHeader(query) \o content, MsgLimit)
                ELSE content
        e    == EditSent(s1, text, pair.final, f.a)
    IN  IF e.ok THEN Advance(e.st, pair)
        ELSE [e.st EXCEPT !.backoff = @ + BackoffStep]

Abs(x) == IF x < 0 THEN -x ELSE x

\* an iteration that counts a blank pair as handled
StreamStepCountingBlank(s, pair, f, mode, isGroup, query) ==
    IF pair.dr THEN [s EXCEPT !.ops = <<>>, !.returned = TRUE]
    ELSE Advance([s EXCEPT !.ops = <<>>], pair)

\* one iteration of `async for content, tokens in stream_response`
StreamStep(s, pair, f, mode, isGroup, query) ==
    LET s0     == [s EXCEPT !.ops = <<>>]
        chunks == split_into_chunks(pair.content)
        over   == mode # "inline" /\ Len(chunks) > 1
        content == IF over THEN chunks[Len(chunks)] ELSE pair.content
        cutoff == get_stream_cutoff_values(isGroup, content) + s.backoff
    IN  IF pair.dr THEN [s0 EXCEPT !.returned = TRUE]
        ELSE IF Len(strip(pair.content)) = 0 THEN s0
        ELSE IF over /\ s.stream_chunk # Len(chunks) - 1
             THEN OverflowSplit(s0, chunks, f)
        ELSE IF s.i = 0 THEN FirstChunk(s0, content, pair, f, mode, query)
        ELSE IF Abs(Len(content) - Len(s.prev)) > cutoff \/ pair.final
             THEN ThrottledEdit(s0, content, pair, f, mode, query)
        ELSE Advance(s0, pair)

(***************************************************************************)
(* The streaming loop, one pair per step (specification SpecStream).       *)
(***************************************************************************)
StreamModes == {"prompt", "vision", "inline"}

InlineQueryText == <<"q">>

\* the pairs the backend generator can yield after a content of length n:
\* the accumulated answer never shrinks, the last pair carries the marker
Pairs(n) ==
    {[content |-> RefText(m), final |-> fin, tokens |-> IF fin THEN k ELSE 0,
      dr |-> FALSE] : m \in n..MaxText, fin \in BOOLEAN, k \in 1..MaxTokens}
    \cup {[content |-> <<>>, final |-> TRUE, tokens |-> k, dr |-> TRUE] :
            k \in 1..MaxTokens}

SmIdle ==
    [phase |-> "idle", mode |-> "prompt", isGroup |-> FALSE,
     s |-> LoopInit("prompt", <<>>), n |-> 0, len |-> 0, tokens |-> 0,
     cross |-> "none", failed |-> FALSE, f |-> NoFailure, calm |-> TRUE]

\* the handler reaches its `async for` with fresh loop variables
StreamOpen ==
    /\ sm.phase = "idle"
    /\ \E mode \in StreamModes, isGroup \in BOOLEAN :
         sm' = [SmIdle EXCEPT !.phase = "streaming", !.mode = mode,
                              !.isGroup = isGroup,
                              !.s = LoopInit(mode, InlineQueryText)]
    /\ UNCHANGED <<config, usage, last_message, inline_queries_cache, issued, ev, tasks, disk>>

\* the loop consumes the next pair of the stream
StreamPair ==
    /\ sm.phase = "streaming"
    /\ sm.n < MaxPairs
    /\ \E pair \in Pairs(sm.len), f \in Failures :
         LET s1 == StreamStep(sm.s, pair, f, sm.mode, sm.isGroup, InlineQueryText)
             crossing == ~pair.dr /\ Len(pair.content) > MsgLimit
                         /\ sm.cross = "none"
         IN  sm' = [sm EXCEPT
                      !.s = s1,
                      !.n = @ + 1,
                      !.f = f,
                      !.calm = @ /\ f = NoFailure,
                      !.len = IF pair.dr THEN @ ELSE Len(pair.content),
                      !.tokens = IF pair.final THEN pair.tokens ELSE @,
                      !.phase = IF pair.dr THEN "direct_result"
                                ELSE IF pair.final THEN "done" ELSE @,
                      !.cross = IF crossing
                                THEN (IF sm.s.sent # 0 /\ sm.s.i > 0
                                      THEN "with_first" ELSE "without_first")
                                ELSE @,
                      !.failed = @ \/ (\E j \in 1..Len(s1.ops) : ~s1.ops[j].ok)
                                   \/ (crossing /\ sm.s.sent = 0)]
    /\ UNCHANGED <<config, usage, last_message, inline_queries_cache, issued, ev, tasks, disk>>

(***************************************************************************)
(* Configuration and orchestrator state.                                   *)
(***************************************************************************)
\* user identifiers: allow-listed, administrator outside the allow-list,
\* and a user who is neither
ListedUser == 12
AdminUser == 2
Stranger == 3

\* chat identifiers: a private chat carries its user's identifier
GroupChat == 50

\* key of the pooled record, the literal "guests" of the source
Guests == 0

BaseConfig ==
    [stream |-> TRUE,
     enable_image_generation |-> TRUE,
     enable_tts_generation |-> TRUE,
     enable_transcription |-> TRUE,
     enable_vision |-> TRUE,
     ignore_group_transcriptions |-> FALSE,
     ignore_group_vision |-> FALSE,
     group_trigger_keyword |-> <<"k">>,
     voice_reply_transcript |-> FALSE,
     voice_reply_prompts |-> << <<>>, <<"k">> >>,
     image_receive_mode |-> "photo",
     budget |-> Budget,
     allowed_user_ids |-> <<"1", "2", ",", "7">>,
     admin_user_ids |-> <<"2">>,
     plugins |-> <<>>]

\* the last handler invocation: who called what, and what it did
EvNone ==
    [handler |-> "none", user |-> 0, chat |-> 0, text |-> <<>>,
     after |-> "none", prev_text |-> <<>>,
     gate |-> "none", sent |-> <<>>, answers |-> 0, backend |-> 0,
     query |-> <<>>, ops |-> <<>>, tracker |-> <<>>, direct |-> 0,
     cleanup |-> 0, raised |-> FALSE, replayed |-> FALSE, resets |-> 0,
     shown |-> <<>>, stream |-> FALSE, dr |-> FALSE, reported |-> 0,
     reply |-> "none", files |-> {}, transcript |-> <<>>,
     callback_data |-> <<>>, trace |-> <<>>]

\* ChatGPTTelegramBot.__init__: the three run-time maps start empty
InitState ==
    /\ usage = <<>>
    /\ last_message = <<>>
    /\ inline_queries_cache = <<>>
    /\ issued = 0
    /\ ev = EvNone
    /\ sm = SmIdle
    /\ tasks = <<>>
    /\ disk = {}

(***************************************************************************)
(* Access predicates and usage accounting (utils.py, usage_tracker.py:     *)
(* modelled from the specification).                                       *)
(***************************************************************************)
\* list membership of str(user_id) in a comma-separated configuration value
InList(user, csv) == str(user) \in Elems(split(csv, ",", <<>>))

is_admin(cfg, user) == InList(user, cfg.admin_user_ids)

\* a user absent from allowed_user_ids who is not an admin is denied
is_allowed(cfg, user) == InList(user, cfg.allowed_user_ids) \/ is_admin(cfg, user)

UsageKinds ==
    {"chat_tokens", "images", "tts_characters", "transcription_seconds",
     "vision_tokens"}

\* UsageTracker(user_id, name): a record with nothing consumed
UsageTracker == [k \in UsageKinds |-> 0]

\* get_current_cost: a function of the recorded quantities (unit prices)
get_current_cost(rec) ==
    rec["chat_tokens"] + rec["images"] + rec["tts_characters"]
        + rec["transcription_seconds"] + rec["vision_tokens"]

\* false once the current-period cost meets or exceeds the budget ceiling
is_within_budget(cfg, u, user) ==
    (IF user \in DOMAIN u THEN get_current_cost(u[user]) ELSE 0) < cfg.budget

\* UsageTracker.add_*: one usage event on the record under `key`
AddUsage(run, key, kind, amount) ==
    [run EXCEPT !.usage[key][kind] = @ + amount,
                !.ops = Append(@, <<key, kind, amount>>)]

\* usage[user_id] = UsageTracker(...) when the user has no record
EnsureRecord(u, user) == IF user \in DOMAIN u THEN u ELSE (user :> UsageTracker) @@ u

(***************************************************************************)
(* One handler invocation: the orchestrator maps it reads and writes and   *)
(* what it did (notices sent, replies carrying model output, backend       *)
(* calls, usage events, Direct Result deliveries, and so on).              *)
(***************************************************************************)
RunStart(u, lm, cache, iss) ==
    [usage |-> u, lm |-> lm, cache |-> cache, issued |-> iss,
     gate |-> "none", sent |-> <<>>, answers |-> 0, backend |-> 0,
     query |-> <<>>, ops |-> <<>>, tracker |-> <<>>, direct |-> 0,
     cleanup |-> 0, raised |-> FALSE, replayed |-> FALSE, resets |-> 0,
     shown |-> <<>>, dr |-> FALSE, reported |-> 0, files |-> {},
     transcript |-> <<>>, callback_data |-> <<>>, trace |-> <<>>]

\* a localized notice sent as a reply (or as an edit of the inline message)
Say(run, notice) == [run EXCEPT !.sent = Append(@, notice)]

\* the order of the awaited calls of _send_inline_query_response and of the
\* except clause around it, each with whether it returned (ok) or raised
Log(run, e, ok) == [run EXCEPT !.trace = Append(@, [e |-> e, ok |-> ok])]

\* the budget consulted before the allow-list
GateBudgetFirst(cfg, u, user) ==
    IF ~is_within_budget(cfg, u, user) THEN "budget"
    ELSE IF ~is_allowed(cfg, user) THEN "denied"
    ELSE "pass"

\* check_allowed_and_within_budget, and the notification each denial sends
Gate(cfg, u, user) ==
    IF ~is_allowed(cfg, user) THEN "denied"
    ELSE IF ~is_within_budget(cfg, u, user) THEN "budget"
    ELSE "pass"

GateNotice(g) == IF g = "denied" THEN "disallowed" ELSE "budget_limit"

check_allowed_and_within_budget(run, cfg, user) ==
    LET g  == Gate(cfg, run.usage, user)
        r1 == [run EXCEPT !.gate = g]
    IN  IF g = "pass" THEN r1 ELSE Say(r1, GateNotice(g))

\* a denial that returns without the notification
check_allowed_silently(run, cfg, user) ==
    IF is_allowed(cfg, user) THEN [run EXCEPT !.gate = "pass"]
    ELSE [run EXCEPT !.gate = "denied"]

\* the allow-list check at the head of stats, resend and reset
check_allowed(run, cfg, user) ==
    IF is_allowed(cfg, user) THEN [run EXCEPT !.gate = "pass"]
    ELSE Say([run EXCEPT !.gate = "denied"], "disallowed")

\* membership tested on the unsplit string: str(user_id) not in allowed_user_ids
GuestPooledUnsplit(cfg, u, user) ==
    /\ ~(\E j \in 1..Len(cfg.allowed_user_ids) :
            startswith(drop(cfg.allowed_user_ids, j - 1), str(user)))
    /\ Guests \in DOMAIN u

\* every user pooled: the allow-list test left out
GuestPooledAlways(cfg, u, user) == Guests \in DOMAIN u

\* str(user_id) not in allowed_user_ids.split(',') and 'guests' in bot.usage
GuestPooled(cfg, u, user) ==
    ~InList(user, cfg.allowed_user_ids) /\ Guests \in DOMAIN u

\* a usage event on the user's record and, for a pooled user, on "guests"
RecordUsage(run, cfg, user, kind, amount) ==
    LET r1 == AddUsage(run, user, kind, amount)
    IN  IF GuestPooled(cfg, r1.usage, user)
        THEN AddUsage(r1, Guests, kind, amount)
        ELSE r1

\* add_chat_request_to_usage_tracker (utils.py): the token delta applied to
\* the user's record and, if applicable, to the pooled record, in one call
add_chat_request_to_usage_tracker(run, cfg, user, used_tokens) ==
    LET r1 == [run EXCEPT !.tracker = Append(@, used_tokens),
                          !.usage = EnsureRecord(@, user)]
    IN  RecordUsage(r1, cfg, user, "chat_tokens", used_tokens)

\* handle_direct_result (utils.py): delivers the payload and removes its
\* temporary files on the success and on the failure path
handle_direct_result(run, outcome) ==
    [run EXCEPT !.direct = @ + 1, !.cleanup = @ + 1,
                !.raised = outcome # "ok"]

\* cleanup_intermediate_files (utils.py)
cleanup_intermediate_files(run) == [run EXCEPT !.cleanup = @ + 1]

(***************************************************************************)
(* Updates and backend behaviour.                                          *)
(***************************************************************************)
CommandTokens == {"/chat", "/resend", "/reset", "/image", "/tts", "/stats"}

\* message_text (utils.py): the text without a leading command token
message_text(text) ==
    IF text # <<>> /\ Head(text) \in CommandTokens THEN strip(Tail(text))
    ELSE text

is_group_chat(upd) == upd.chat = GroupChat

\* text of the message a user's message replies to
QuotedText == <<"q">>

\* f'"{update.message.reply_to_message.text}" {prompt}'
Quote(prompt) == <<"'">> \o QuotedText \o <<"'", " ">> \o prompt

\* an update: its kind, sender, chat, text (or caption, or inline query, or
\* callback data) and what the message replies to
Update(kind, user, chat, text, reply) ==
    [kind |-> kind, user |-> user, chat |-> chat, text |-> text, reply |-> reply]

\* a final or in-progress pair of a backend stream
TextPair(n, fin, k) ==
    [content |-> RefText(n), final |-> fin, tokens |-> IF fin THEN k ELSE 0,
     dr |-> FALSE]

DirectPair(k) == [content |-> <<>>, final |-> TRUE, tokens |-> k, dr |-> TRUE]

\* an answer of the backend: the call raises, or it yields this sequence of
\* pairs (a blocking call returns the content and the count of the last one)
Raising == [raises |-> TRUE, pairs |-> <<>>]

Yields(ps) == [raises |-> FALSE, pairs |-> ps]

\* what the handler's surroundings do during one invocation: the answer of
\* the chat, vision, image or speech call (ans), the outcomes of the platform
\* calls (f), of the download and decoding of the attachment (media), of the
\* transcription call (stt), and the transcript it returns
Env(ans, f, media, stt, transcript) ==
    [ans |-> ans, f |-> f, media |-> media, stt |-> stt,
     transcript |-> transcript]

\* the loop over a whole stream; texts counts the sends and edits that
\* carried model output
RECURSIVE RunStream(_, _, _, _, _, _, _)
RunStream(s, texts, pairs, f, mode, isGroup, query) ==
    IF pairs = <<>> \/ s.returned THEN [st |-> s, texts |-> texts]
    ELSE LET s1 == StreamStep(s, Head(pairs), f, mode, isGroup, query)
             n  == Cardinality({j \in 1..Len(s1.ops) :
                                  s1.ops[j].op \in {"send", "edit"}})
         IN  RunStream(s1, texts + n, Tail(pairs), f, mode, isGroup, query)

\* an except clause that reports the failure with a localized notice
Fail(run, notice) == Say([run EXCEPT !.raised = FALSE], notice)

\* a call into the AI backend with the given input text
CallBackend(run, text) == [run EXCEPT !.backend = @ + 1, !.query = text]

(***************************************************************************)
(* prompt (message_handlers.py) and resend (command_handlers.py).          *)
(***************************************************************************)
\* the keyword compared without lower()
GroupTriggerCaseSensitive(cfg, upd, prompt) ==
    LET kw  == cfg.group_trigger_keyword
        has == startswith(prompt, kw)
        p1  == IF has THEN strip(drop(prompt, Len(kw))) ELSE prompt
    IN  IF has \/ startswith(lower(upd.text), <<"/chat">>)
        THEN [ignored |-> FALSE,
              prompt |-> IF upd.reply = "user" THEN Quote(p1) ELSE p1]
        ELSE [ignored |-> upd.reply # "bot", prompt |-> prompt]

\* the quoted text of the message replied to never prepended
GroupTriggerWithoutQuote(cfg, upd, prompt) ==
    LET kw  == cfg.group_trigger_keyword
        has == startswith(lower(prompt), lower(kw))
        p1  == IF has THEN strip(drop(prompt, Len(kw))) ELSE prompt
    IN  IF has \/ startswith(lower(upd.text), <<"/chat">>)
        THEN [ignored |-> FALSE, prompt |-> p1]
        ELSE [ignored |-> upd.reply # "bot", prompt |-> prompt]

\* group chats: trigger keyword, /chat alias, reply to the bot
GroupTrigger(cfg, upd, prompt) ==
    LET kw  == cfg.group_trigger_keyword
        has == startswith(lower(prompt), lower(kw))
        p1  == IF has THEN strip(drop(prompt, Len(kw))) ELSE prompt
    IN  IF has \/ startswith(lower(upd.text), <<"/chat">>)
        THEN [ignored |-> FALSE,
              prompt |-> IF upd.reply = "user" THEN Quote(p1) ELSE p1]
        ELSE [ignored |-> upd.reply # "bot", prompt |-> prompt]

\* the replies of the blocking path: each chunk as Markdown, then as plain
\* text when that is rejected; an exception when both fail
ChunkReplies(run, response, f) ==
    LET n == Len(split_into_chunks(response))
    IN  IF n = 0 THEN run
        ELSE IF f.a = "ok" THEN [run EXCEPT !.answers = @ + n]
        ELSE IF f.b = "ok" THEN [run EXCEPT !.answers = @ + 2 * n]
        ELSE [run EXCEPT !.answers = @ + 2, !.raised = TRUE]

\* the streaming branch of prompt
PromptStream(run, cfg, upd, env) ==
    LET out == RunStream(LoopInit("prompt", <<>>), 0, env.ans.pairs, env.f,
                         "prompt", is_group_chat(upd), <<>>)
        r1  == [run EXCEPT !.answers = out.texts]
    IN  IF out.st.returned
        THEN LET d == handle_direct_result(r1, env.f.b)
             IN  IF d.raised THEN Fail(d, "chat_fail") ELSE d
        ELSE add_chat_request_to_usage_tracker(r1, cfg, upd.user,
                                               out.st.total_tokens)

\* the blocking branch of prompt (_reply under wrap_with_indicator)
PromptBlocking(run, cfg, upd, env) ==
    LET last == env.ans.pairs[Len(env.ans.pairs)]
        r1   == IF last.dr THEN handle_direct_result(run, env.f.b)
                ELSE ChunkReplies(run, last.content, env.f)
    IN  IF r1.raised THEN Fail(r1, "chat_fail")
        ELSE add_chat_request_to_usage_tracker(r1, cfg, upd.user, last.tokens)

\* the try block of prompt: one backend call with the prompt text
ChatTurn(run, cfg, upd, prompt, env) ==
    LET r0 == CallBackend(run, prompt)
    IN  IF env.ans.raises THEN Fail(r0, "chat_fail")
        ELSE IF cfg.stream THEN PromptStream(r0, cfg, upd, env)
        ELSE PromptBlocking(r0, cfg, upd, env)

\* the assignment of line 367 left out
CachePromptNever(run, chat, prompt) == run

\* bot.last_message[chat_id] = prompt
CachePrompt(run, chat, prompt) ==
    [run EXCEPT !.lm = [c \in DOMAIN @ \cup {chat} |->
                          IF c = chat THEN prompt ELSE @[c]]]

\* the prompt cached before the gate is consulted
prompt_caching_first(run, cfg, upd, env) ==
    IF upd.kind # "message" THEN run
    ELSE LET r0 == CachePrompt(run, upd.chat, message_text(upd.text))
             g  == check_allowed_and_within_budget(r0, cfg, upd.user)
             gt == GroupTrigger(cfg, upd, message_text(upd.text))
         IN  IF g.gate # "pass" THEN g
             ELSE IF ~is_group_chat(upd)
                  THEN ChatTurn(g, cfg, upd, message_text(upd.text), env)
             ELSE IF gt.ignored THEN g
             ELSE ChatTurn(g, cfg, upd, gt.prompt, env)

\* the prompt cached after the group checks, once it is known to be processed
prompt_caching_processed(run, cfg, upd, env) ==
    IF upd.kind # "message" THEN run
    ELSE LET g == check_allowed_and_within_budget(run, cfg, upd.user)
             text == message_text(upd.text)
             r1 == CachePrompt(g, upd.chat, text)
             gt == GroupTrigger(cfg, upd, text)
         IN  IF g.gate # "pass" THEN g
             ELSE IF ~is_group_chat(upd) THEN ChatTurn(r1, cfg, upd, text, env)
             ELSE IF gt.ignored THEN g
             ELSE ChatTurn(r1, cfg, upd, gt.prompt, env)

prompt(run, cfg, upd, env) ==
    IF upd.kind # "message" THEN run
    ELSE LET g == check_allowed_and_within_budget(run, cfg, upd.user)
             text == message_text(upd.text)
             r1 == CachePrompt(g, upd.chat, text)
             gt == GroupTrigger(cfg, upd, text)
         IN  IF g.gate # "pass" THEN g
             ELSE IF ~is_group_chat(upd) THEN ChatTurn(r1, cfg, upd, text, env)
             ELSE IF gt.ignored THEN r1
             ELSE ChatTurn(r1, cfg, upd, gt.prompt, env)

\* bot.last_message.pop(chat_id)
PopPrompt(run, chat) ==
    [run EXCEPT !.lm = [c \in DOMAIN @ \ {chat} |-> @[c]], !.replayed = TRUE]

resend(run, cfg, upd, env) ==
    LET g == check_allowed(run, cfg, upd.user)
    IN  IF g.gate # "pass" THEN g
        ELSE IF upd.chat \notin DOMAIN run.lm THEN Say(g, "resend_failed")
        ELSE prompt(PopPrompt(g, upd.chat), cfg,
                    [upd EXCEPT !.text = run.lm[upd.chat]], env)

(***************************************************************************)
(* help, stats, reset, image and tts (command_handlers.py).                *)
(***************************************************************************)
help(run, cfg, upd, env) == Say(run, "help")

stats(run, cfg, upd, env) ==
    LET g == check_allowed(run, cfg, upd.user)
    IN  IF g.gate # "pass" THEN g
        ELSE Say([g EXCEPT !.usage = EnsureRecord(@, upd.user)], "stats")

reset(run, cfg, upd, env) ==
    LET g == check_allowed(run, cfg, upd.user)
    IN  IF g.gate # "pass" THEN g
        ELSE Say([g EXCEPT !.resets = @ + 1], "reset_done")

\* bot.usage[user_id].add_*_request(...): a KeyError without a record
RecordOnExisting(run, cfg, user, kind, amount) ==
    IF user \notin DOMAIN run.usage THEN [run EXCEPT !.raised = TRUE]
    ELSE RecordUsage(run, cfg, user, kind, amount)

\* reply_photo or reply_document per image_receive_mode
DeliverImage(run, cfg, f) ==
    IF cfg.image_receive_mode \notin {"photo", "document"} \/ f.b # "ok"
    THEN [run EXCEPT !.raised = TRUE]
    ELSE [run EXCEPT !.answers = @ + 1]

image_generate(run, cfg, upd, env) ==
    LET r0 == CallBackend(run, message_text(upd.text))
        d  == DeliverImage(r0, cfg, env.f)
        u  == RecordOnExisting(d, cfg, upd.user, "images", 1)
    IN  IF env.ans.raises THEN Fail(r0, "image_fail")
        ELSE IF d.raised THEN Fail(d, "image_fail")
        ELSE IF u.raised THEN Fail(u, "image_fail")
        ELSE u

\* the gate consulted before the feature flag
image_gate_first(run, cfg, upd, env) ==
    LET g == check_allowed_and_within_budget(run, cfg, upd.user)
    IN  IF g.gate # "pass" \/ ~cfg.enable_image_generation THEN g
        ELSE IF message_text(upd.text) = <<>> THEN Say(g, "image_no_prompt")
        ELSE image_generate(g, cfg, upd, env)

image(run, cfg, upd, env) ==
    IF ~cfg.enable_image_generation THEN run
    ELSE LET g == check_allowed_and_within_budget(run, cfg, upd.user)
         IN  IF g.gate # "pass" THEN g
             ELSE IF message_text(upd.text) = <<>> THEN Say(g, "image_no_prompt")
             ELSE image_generate(g, cfg, upd, env)

\* reply_voice
DeliverVoice(run, f) ==
    IF f.b # "ok" THEN [run EXCEPT !.raised = TRUE]
    ELSE [run EXCEPT !.answers = @ + 1]

tts_generate(run, cfg, upd, env) ==
    LET tts_query == message_text(upd.text)
        r0 == CallBackend(run, tts_query)
        d  == DeliverVoice(r0, env.f)
        u  == RecordOnExisting(d, cfg, upd.user, "tts_characters", Len(tts_query))
    IN  IF env.ans.raises THEN Fail(r0, "tts_fail")
        ELSE IF d.raised THEN Fail(d, "tts_fail")
        ELSE IF u.raised THEN Fail(u, "tts_fail")
        ELSE u

tts(run, cfg, upd, env) ==
    IF ~cfg.enable_tts_generation THEN run
    ELSE LET g == check_allowed_and_within_budget(run, cfg, upd.user)
         IN  IF g.gate # "pass" THEN g
             ELSE IF message_text(upd.text) = <<>> THEN Say(g, "tts_no_prompt")
             ELSE tts_generate(g, cfg, upd, env)

(***************************************************************************)
(* transcribe and vision (message_handlers.py).                            *)
(***************************************************************************)
\* the prefixes compared without lower()
response_to_transcription_exact(cfg, transcript) ==
    \E j \in 1..Len(cfg.voice_reply_prompts) :
        /\ cfg.voice_reply_prompts[j] # <<>>
        /\ startswith(transcript, cfg.voice_reply_prompts[j])

\* any(transcript.lower().startswith(prefix.lower()) if prefix else False ...)
response_to_transcription(cfg, transcript) ==
    \E j \in 1..Len(cfg.voice_reply_prompts) :
        /\ cfg.voice_reply_prompts[j] # <<>>
        /\ startswith(lower(transcript), lower(cfg.voice_reply_prompts[j]))

\* f"_{transcript}:_\n\"{transcript}\"" and the same followed by the answer
TranscriptOutput(transcript) == <<"t", ":">> \o transcript

AnswerOutput(transcript, response) ==
    TranscriptOutput(transcript) \o <<"a", ":">> \o response

\* one Markdown reply per chunk; a rejected reply raises
MarkdownReplies(run, text, f) ==
    IF f.a = "ok"
    THEN [run EXCEPT !.answers = @ + Len(split_into_chunks(text))]
    ELSE [run EXCEPT !.answers = @ + 1, !.raised = TRUE]

\* the try block of transcribe._execute after a successful transcoding
Transcription(run, cfg, upd, env) ==
    LET r0   == [run EXCEPT !.backend = @ + 1]
        r1   == RecordUsage([r0 EXCEPT !.transcript = env.transcript], cfg,
                            upd.user, "transcription_seconds", AudioSeconds)
        raw  == MarkdownReplies(r1, TranscriptOutput(env.transcript), env.f)
        r2   == CallBackend(r1, env.transcript)
        last == env.ans.pairs[Len(env.ans.pairs)]
        r3   == RecordUsage(r2, cfg, upd.user, "chat_tokens", last.tokens)
        full == MarkdownReplies(r3, AnswerOutput(env.transcript, last.content),
                                env.f)
    IN  IF env.stt # "ok" THEN Fail(r0, "transcribe_fail")
        ELSE IF cfg.voice_reply_transcript
                /\ ~response_to_transcription(cfg, env.transcript)
             THEN (IF raw.raised THEN Fail(raw, "transcribe_fail") ELSE raw)
        ELSE IF env.ans.raises THEN Fail(r2, "transcribe_fail")
        ELSE IF full.raised THEN Fail(full, "transcribe_fail")
        ELSE full

\* if os.path.exists(name): os.remove(name), for each of the names
os_remove(run, names) == [run EXCEPT !.files = @ \ names]

\* transcribe._execute: the download and the transcoding, each with its own
\* except branch, then the try block whose finally removes both files. A
\* failed export may leave the .mp3 it had begun to write, and a failure
\* notice the platform rejects raises out of its except branch
transcribe_execute(run, cfg, upd, env) ==
    LET got == [run EXCEPT !.files = {"file"}]
        bad == [Say(got, "media_type_fail") EXCEPT
                    !.files = IF env.media = "export_fail"
                              THEN {"file", "mp3"} ELSE {"file"}]
        mp3 == [got EXCEPT !.files = {"file", "mp3"},
                           !.usage = EnsureRecord(@, upd.user)]
    IN  IF env.media = "download_fail" THEN Say(run, "media_download_fail")
        ELSE IF env.media \in {"decode_fail", "export_fail"}
             THEN (IF env.f.b # "ok" THEN [bad EXCEPT !.raised = TRUE]
                   ELSE os_remove(bad, {"file"}))
        ELSE os_remove(Transcription(mp3, cfg, upd, env), {"file", "mp3"})

transcribe(run, cfg, upd, env) ==
    IF ~cfg.enable_transcription THEN run
    ELSE LET g == check_allowed_and_within_budget(run, cfg, upd.user)
         IN  IF g.gate # "pass" THEN g
             ELSE IF is_group_chat(upd) /\ cfg.ignore_group_transcriptions THEN g
             ELSE transcribe_execute(g, cfg, upd, env)

\* update.message.caption of a photo sent without a caption
NoCaption == <<"None">>

\* the group-chat checks without the test of a missing caption
VisionIgnoredCaptioned(cfg, upd) ==
    /\ is_group_chat(upd)
    /\ \/ cfg.ignore_group_vision
       \/ /\ upd.text # NoCaption
          /\ ~startswith(lower(upd.text), lower(cfg.group_trigger_keyword))

\* the group-chat checks at the head of vision
VisionIgnored(cfg, upd) ==
    /\ is_group_chat(upd)
    /\ \/ cfg.ignore_group_vision
       \/ upd.text = NoCaption /\ cfg.group_trigger_keyword # <<>>
       \/ /\ upd.text # NoCaption
          /\ ~startswith(lower(upd.text), lower(cfg.group_trigger_keyword))

\* bot.usage[user_id].add_vision_tokens(total_tokens, ...): an
\* UnboundLocalError when no branch assigned total_tokens
VisionUsage(run, cfg, user, total_tokens) ==
    IF total_tokens = Unbound THEN [run EXCEPT !.raised = TRUE]
    ELSE RecordUsage(run, cfg, user, "vision_tokens", total_tokens)

\* the streaming branch of vision._execute
VisionStream(run, cfg, upd, env) ==
    LET out == RunStream(LoopInit("vision", <<>>), 0, env.ans.pairs, env.f,
                         "vision", is_group_chat(upd), <<>>)
        r1  == [run EXCEPT !.answers = out.texts]
    IN  IF env.ans.raises THEN [run EXCEPT !.raised = TRUE]
        ELSE IF out.st.returned THEN handle_direct_result(r1, env.f.b)
        ELSE VisionUsage(r1, cfg, upd.user, out.st.total_tokens)

\* the blocking branch of vision._execute: Markdown, then plain text when
\* the platform rejects the Markdown, then the failure notice
VisionBlocking(run, cfg, upd, env) ==
    LET last == env.ans.pairs[Len(env.ans.pairs)]
        r1   == IF env.f.a = "ok" THEN [run EXCEPT !.answers = @ + 1]
                ELSE IF env.f.a # "error"
                     THEN Say([run EXCEPT !.answers = @ + 1], "vision_fail")
                ELSE IF env.f.b = "ok" THEN [run EXCEPT !.answers = @ + 2]
                ELSE Say([run EXCEPT !.answers = @ + 2], "vision_fail")
    IN  IF env.ans.raises
        THEN VisionUsage(Say(run, "vision_fail"), cfg, upd.user, Unbound)
        ELSE VisionUsage(r1, cfg, upd.user, last.tokens)

vision_execute(run, cfg, upd, env) ==
    IF env.media = "download_fail" THEN Say(run, "media_download_fail")
    ELSE LET r0 == IF env.media = "decode_fail"
                   THEN Say(run, "media_type_fail") ELSE run
             r1 == CallBackend([r0 EXCEPT !.usage = EnsureRecord(@, upd.user)],
                               upd.text)
         IN  IF cfg.stream THEN VisionStream(r1, cfg, upd, env)
             ELSE VisionBlocking(r1, cfg, upd, env)

vision(run, cfg, upd, env) ==
    IF ~cfg.enable_vision THEN run
    ELSE LET g == check_allowed_and_within_budget(run, cfg, upd.user)
         IN  IF g.gate # "pass" THEN g
             ELSE IF VisionIgnored(cfg, upd) THEN g
             ELSE vision_execute(g, cfg, upd, env)

(***************************************************************************)
(* inline_query and handle_callback_inline_query (message_handlers.py).    *)
(***************************************************************************)
\* callback_data_suffix = "gpt:"
CallbackPrefix == <<"g", "p", "t", ":">>

\* send_inline_query_result with callback data: the article is answered,
\* or the error of building or sending it is logged and swallowed
send_inline_query_result(run, callback_data, outcome) ==
    IF outcome = "ok"
    THEN [Say(run, "inline_result") EXCEPT !.callback_data = callback_data]
    ELSE run

\* the gate consulted before the length of the query
inline_query_gate_first(run, cfg, upd, env) ==
    LET g == check_allowed_and_within_budget(run, cfg, upd.user)
        result_id == str(g.issued + 1)
    IN  IF g.gate # "pass" THEN g
        ELSE IF Len(upd.text) < MinQueryLen THEN run
        ELSE send_inline_query_result(
                [g EXCEPT !.issued = @ + 1,
                          !.cache = (result_id :> upd.text) @@ @],
                CallbackPrefix \o result_id, env.f.b)

inline_query(run, cfg, upd, env) ==
    IF Len(upd.text) < MinQueryLen THEN run
    ELSE LET g == check_allowed_and_within_budget(run, cfg, upd.user)
             result_id == str(g.issued + 1)
         IN  IF g.gate # "pass" THEN g
             ELSE send_inline_query_result(
                     [g EXCEPT !.issued = @ + 1,
                               !.cache = (result_id :> upd.text) @@ @],
                     CallbackPrefix \o result_id, env.f.b)

\* an edit of the inline message with a notice; a rejected edit raises
InlineNotice(run, notice, outcome) ==
    [Say(run, notice) EXCEPT !.raised = outcome # "ok"]

\* the streaming branch of handle_callback_inline_query
CallbackStream(run, cfg, upd, query, env) ==
    LET out == RunStream(LoopInit("inline", query), 0, env.ans.pairs, env.f,
                         "inline", FALSE, query)
        r1  == [run EXCEPT !.answers = out.texts]
        n   == InlineNotice(cleanup_intermediate_files(r1),
                            "function_unavailable_in_inline_mode", env.f.a)
    IN  IF out.st.returned
        THEN (IF n.raised THEN Fail(n, "chat_fail") ELSE n)
        ELSE add_chat_request_to_usage_tracker(r1, cfg, upd.user,
                                               out.st.total_tokens)

\* a blocking branch that calls the backend before it shows the placeholder
CallbackBlockingBackendFirst(run, cfg, upd, query, env) ==
    LET r0 == Log(CallBackend(run, query), "backend", TRUE)
        ld == Log(Say(r0, "loading"), "loading", env.f.b = "ok")
    IN  IF env.f.b # "ok" THEN Log(Fail(ld, "chat_fail"), "chat_fail", TRUE)
        ELSE Log([ld EXCEPT !.answers = @ + 1], "answer", TRUE)

\* the blocking branch (_send_inline_query_response)
CallbackBlocking(run, cfg, upd, query, env) ==
    LET ld   == Log(Say(run, "loading"), "loading", env.f.b = "ok")
        r0   == Log(CallBackend(ld, query), "backend", ~env.ans.raises)
        last == env.ans.pairs[Len(env.ans.pairs)]
        n    == Log(InlineNotice(Log(cleanup_intermediate_files(r0),
                                     "cleanup", TRUE),
                                 "function_unavailable_in_inline_mode", env.f.a),
                    "function_unavailable_in_inline_mode", env.f.a = "ok")
        e    == Log([r0 EXCEPT !.answers = @ + 1, !.raised = env.f.a # "ok",
                               !.shown = take(InlineHeader(query) \o last.content,
                                              MsgLimit)],
                    "answer", env.f.a = "ok")
        r1   == IF last.dr THEN n ELSE e
        failed(r) == Log(Fail(r, "chat_fail"), "chat_fail", TRUE)
    IN  IF env.f.b # "ok" THEN failed(ld)
        ELSE IF env.ans.raises THEN failed(r0)
        ELSE IF r1.raised THEN failed(r1)
        ELSE add_chat_request_to_usage_tracker(r1, cfg, upd.user, last.tokens)

\* the entry read with get() and never popped
handle_callback_keeping_entry(run, cfg, upd, env) ==
    IF ~startswith(upd.text, CallbackPrefix) THEN run
    ELSE LET unique_id == split(upd.text, ":", <<>>)[2]
             known == unique_id \in DOMAIN run.cache /\ run.cache[unique_id] # <<>>
             query == run.cache[unique_id]
             r0 == run
             n  == InlineNotice(run, "try_again", env.f.a)
         IN  IF ~known THEN (IF n.raised THEN Fail(n, "chat_fail") ELSE n)
             ELSE LET r1 == CallBackend(r0, query)
                  IN  IF ~cfg.stream THEN CallbackBlocking(r0, cfg, upd, query, env)
                      ELSE IF env.ans.raises THEN Fail(r1, "chat_fail")
                      ELSE CallbackStream(r1, cfg, upd, query, env)

handle_callback_inline_query(run, cfg, upd, env) ==
    IF ~startswith(upd.text, CallbackPrefix) THEN run
    ELSE LET unique_id == split(upd.text, ":", <<>>)[2]
             known == unique_id \in DOMAIN run.cache /\ run.cache[unique_id] # <<>>
             query == run.cache[unique_id]
             r0 == [run EXCEPT !.cache = [k \in DOMAIN @ \ {unique_id} |-> @[k]]]
             n  == InlineNotice(run, "try_again", env.f.a)
         IN  IF ~known THEN (IF n.raised THEN Fail(n, "chat_fail") ELSE n)
             ELSE LET r1 == CallBackend(r0, query)
                  IN  IF ~cfg.stream THEN CallbackBlocking(r0, cfg, upd, query, env)
                      ELSE IF env.ans.raises THEN Fail(r1, "chat_fail")
                      ELSE CallbackStream(r1, cfg, upd, query, env)

\* the pooled record under the key "guests" is constructed (usage_tracker.py)
CreateGuestsRecord(u) == EnsureRecord(u, Guests)

(***************************************************************************)
(* Handler invocations as actions.                                         *)
(***************************************************************************)
\* what the previous invocation was to this resend of the same chat: a
\* prompt that passed the gate, a resend whose replay passed the gate, a
\* resend whose replay was rejected, or none of these
After(handler, upd) ==
    IF handler # "resend" \/ ev.chat # upd.chat THEN "none"
    ELSE IF ev.handler = "prompt" /\ ev.gate = "pass" THEN "prompt"
    ELSE IF ev.handler = "resend" /\ ev.replayed
         THEN (IF ev.gate = "pass" THEN "replay" ELSE "rejected_replay")
    ELSE "none"

\* the handler's effects on the orchestrator maps, and the record of the
\* invocation (text is the replayed text when a resend replays)
Commit(run, handler, upd) ==
    /\ usage' = run.usage
    /\ last_message' = run.lm
    /\ inline_queries_cache' = run.cache
    /\ issued' = run.issued
    /\ ev' = [handler |-> handler, user |-> upd.user, chat |-> upd.chat,
              text |-> IF run.replayed THEN last_message[upd.chat] ELSE upd.text,
              reply |-> upd.reply,
              after |-> After(handler, upd),
              prev_text |-> IF After(handler, upd) = "none" THEN <<>>
                            ELSE ev.text,
              gate |-> run.gate, sent |-> run.sent, answers |-> run.answers,
              backend |-> run.backend, query |-> run.query, ops |-> run.ops,
              tracker |-> run.tracker, direct |-> run.direct,
              cleanup |-> run.cleanup, raised |-> run.raised,
              replayed |-> run.replayed, resets |-> run.resets,
              shown |-> run.shown, stream |-> config.stream,
              dr |-> run.dr, reported |-> run.reported,
              files |-> run.files, transcript |-> run.transcript,
              callback_data |-> run.callback_data, trace |-> run.trace]

Start == RunStart(usage, last_message, inline_queries_cache, issued)

\* platform outcomes seen by a whole handler: the edit (or Markdown send)
\* and the send (or plain-text retry) succeed or fail
HandlerFailures == [a : {"ok", "error"}, b : {"ok", "error"}]

\* the surroundings of a handler that calls nothing that can fail
ProbeEnv == Env(Raising, NoFailure, "ok", "raise", <<"h">>)

\* what the backend did in the invocation: whether its answer was a Direct
\* Result, and the total it reported (0 when the call raised)
Observed(run, env) ==
    IF run.backend = 0 \/ env.ans.raises THEN run
    ELSE LET last == env.ans.pairs[Len(env.ans.pairs)]
         IN  [run EXCEPT !.dr = last.dr, !.reported = last.tokens]

\* one invocation of a handler registered in run (setup_helpers.py), given
\* what the handler did in its surroundings
Step(run, env, h, upd) == Commit(Observed(run, env), h, upd)

(***************************************************************************)
(* Text chat: prompt and resend (specification Spec).                      *)
(***************************************************************************)
\* group messages: each text without a reply, and replies to the bot, to a
\* user's text message and to a user's message without text
GroupTexts ==
    {<<<<"h">>, r>> : r \in {"none", "bot"}}
    \cup {<<<<"k", " ", "h">>, r>> : r \in {"none", "bot", "user", "user_notext"}}
    \cup {<<<<"K", " ", "h">>, "none">>, <<<<"/chat", " ", "h">>, "none">>,
          <<<<"/chat", " ", "h">>, "user">>}

\* text messages and /chat commands, with the updates prompt drops; in the
\* private chat a message may reply to an earlier message of its user
PromptUpdates ==
    {Update("message", u, u, <<"h">>, "none") : u \in {ListedUser, Stranger}}
    \cup {Update("message", ListedUser, ListedUser, <<"h">>, "user")}
    \cup {Update("message", ListedUser, GroupChat, x[1], x[2]) : x \in GroupTexts}
    \cup {Update(k, ListedUser, ListedUser, <<"h">>, "none") :
            k \in {"edited", "via_bot"}}

ResendUpdates ==
    {Update("message", ListedUser, c, <<"/resend">>, "none") :
        c \in {ListedUser, GroupChat}}
    \cup {Update("message", Stranger, GroupChat, <<"/resend">>, "none")}

\* a short answer, an answer that outgrows one message, a Direct Result
ChatAnswers ==
    {Raising, Yields(<<TextPair(2, FALSE, 0), TextPair(MsgLimit + 1, TRUE, 1)>>)}
    \cup {Yields(<<TextPair(2, TRUE, k)>>) : k \in 1..MaxTokens}
    \cup {Yields(<<DirectPair(k)>>) : k \in {MaxTokens}}

ChatEnvs == {Env(a, f, "ok", "ok", <<"h">>) : a \in ChatAnswers, f \in HandlerFailures}

Prompt ==
    /\ \E upd \in PromptUpdates, env \in ChatEnvs :
            Step(prompt(Start, config, upd, env), env, "prompt", upd)
    /\ UNCHANGED <<config, sm, tasks, disk>>

Resend ==
    /\ \E upd \in ResendUpdates, env \in ChatEnvs :
            Step(resend(Start, config, upd, env), env, "resend", upd)
    /\ UNCHANGED <<config, sm, tasks, disk>>

Configs == {BaseConfig, [BaseConfig EXCEPT !.stream = FALSE]}

Init == config \in Configs /\ InitState

Next == Prompt \/ Resend

Spec == Init /\ [][Next]_vars

InitStream == config = BaseConfig /\ InitState

NextStream == StreamOpen \/ StreamPair

SpecStream == InitStream /\ [][NextStream]_vars

(***************************************************************************)
(* Media handlers: image, tts, transcribe, vision, with stats and the      *)
(* pooled record (specification SpecMedia).                                *)
(***************************************************************************)
MediaUsers == {ListedUser, AdminUser}

\* /image and /tts, without and with argument text
CommandUpdates(cmd) ==
    {Update("message", u, u, <<cmd>> \o x, "none") :
        u \in MediaUsers, x \in {<<>>, <<" ", "h">>}}

VoiceUpdates ==
    {Update("voice", u, u, <<>>, "none") : u \in MediaUsers}
    \cup {Update("voice", ListedUser, GroupChat, <<>>, "none")}

\* photos without and with caption, in private and in the group
PhotoUpdates ==
    {Update("photo", u, u, <<"h">>, "none") : u \in MediaUsers}
    \cup {Update("photo", ListedUser, GroupChat, x, "none") :
            x \in {NoCaption, <<"h">>, <<"K", " ", "h">>}}

StatsUpdates == {Update("message", u, u, <<"/stats">>, "none") : u \in MediaUsers}

ShortAnswer == Yields(<<TextPair(2, TRUE, 1)>>)

Plain(ans, f) == Env(ans, f, "ok", "ok", <<"h">>)

\* image and tts: the call succeeds or raises, the delivery succeeds or fails
GenerateEnvs ==
    {Plain(ShortAnswer, NoFailure), Plain(Raising, NoFailure),
     Plain(ShortAnswer, [a |-> "ok", b |-> "error"])}

\* transcribe: each stage fails in turn; the transcript may begin with a
\* voice-reply prefix, and its quotation may exceed one message
TranscribeEnvs ==
    {Plain(ShortAnswer, NoFailure), Plain(Raising, NoFailure),
     Plain(ShortAnswer, [a |-> "error", b |-> "ok"]),
     Env(ShortAnswer, NoFailure, "ok", "raise", <<"h">>),
     Env(ShortAnswer, NoFailure, "ok", "ok", <<"K", "h">>),
     Env(ShortAnswer, NoFailure, "ok", "ok", <<"h", "i">>),
     Env(ShortAnswer, NoFailure, "download_fail", "ok", <<"h">>),
     Env(ShortAnswer, NoFailure, "decode_fail", "ok", <<"h">>),
     Env(ShortAnswer, NoFailure, "export_fail", "ok", <<"h">>),
     Env(ShortAnswer, [a |-> "ok", b |-> "error"], "decode_fail", "ok", <<"h">>)}

\* vision: each answer of the backend, each failure of the replies and of
\* the download and decoding
VisionEnvs ==
    {Plain(a, NoFailure) :
        a \in {ShortAnswer, Raising, Yields(<<DirectPair(1)>>),
               Yields(<<TextPair(2, FALSE, 0), TextPair(MsgLimit + 1, TRUE, 1)>>)}}
    \cup {Plain(ShortAnswer, f) : f \in HandlerFailures}
    \cup {Plain(ShortAnswer, [a |-> "timed_out", b |-> "ok"]),
          Plain(Yields(<<DirectPair(1)>>), [a |-> "ok", b |-> "error"]),
          Env(ShortAnswer, NoFailure, "download_fail", "ok", <<"h">>),
          Env(ShortAnswer, NoFailure, "decode_fail", "ok", <<"h">>)}

Image ==
    /\ \E upd \in CommandUpdates("/image"), env \in GenerateEnvs :
            Step(image(Start, config, upd, env), env, "image", upd)
    /\ UNCHANGED <<config, sm, tasks, disk>>

Tts ==
    /\ \E upd \in CommandUpdates("/tts"), env \in GenerateEnvs :
            Step(tts(Start, config, upd, env), env, "tts", upd)
    /\ UNCHANGED <<config, sm, tasks, disk>>

Transcribe ==
    /\ \E upd \in VoiceUpdates, env \in TranscribeEnvs :
            Step(transcribe(Start, config, upd, env), env, "transcribe", upd)
    /\ UNCHANGED <<config, sm, tasks, disk>>

Vision ==
    /\ \E upd \in PhotoUpdates, env \in VisionEnvs :
            Step(vision(Start, config, upd, env), env, "vision", upd)
    /\ UNCHANGED <<config, sm, tasks, disk>>

Stats ==
    /\ \E upd \in StatsUpdates, env \in {ProbeEnv} :
            Step(stats(Start, config, upd, env), env, "stats", upd)
    /\ UNCHANGED <<config, sm, tasks, disk>>

\* the pooled record appears in the usage map
GuestsRecord ==
    /\ Guests \notin DOMAIN usage
    /\ usage' = CreateGuestsRecord(usage)
    /\ ev' = [EvNone EXCEPT !.handler = "guests_record"]
    /\ UNCHANGED <<config, last_message, inline_queries_cache, issued, sm, tasks, disk>>

\* streamed vision with answered transcripts, blocking vision with raw
\* transcripts; a budget that one usage event exhausts; an
\* image_receive_mode that is neither 'photo' nor 'document'; group photos
\* and group voice messages ignored, and no trigger keyword
MediaConfigs ==
    {[BaseConfig EXCEPT !.stream = s, !.voice_reply_transcript = ~s,
                        !.budget = MediaBudget] : s \in BOOLEAN}
    \cup {[BaseConfig EXCEPT !.budget = MediaBudget,
                             !.image_receive_mode = "sticker"],
          [BaseConfig EXCEPT !.budget = MediaBudget,
                             !.ignore_group_vision = TRUE,
                             !.ignore_group_transcriptions = TRUE],
          [BaseConfig EXCEPT !.budget = MediaBudget,
                             !.group_trigger_keyword = <<>>]}

InitMedia == config \in MediaConfigs /\ InitState

NextMedia == Image \/ Tts \/ Transcribe \/ Vision \/ Stats \/ GuestsRecord

SpecMedia == InitMedia /\ [][NextMedia]_vars

(***************************************************************************)
(* The gate of every handler (specification SpecGate).                     *)
(***************************************************************************)
GateUsers == {ListedUser, Stranger}

\* one update of each kind from an allow-listed user and from a stranger
GateUpdates(kind, text) ==
    {Update(kind, u, u, text, "none") : u \in GateUsers}

GateEnvs == {Plain(ShortAnswer, NoFailure)}

GateStats ==
    /\ \E upd \in GateUpdates("message", <<"/stats">>), env \in GateEnvs :
            Step(stats(Start, config, upd, env), env, "stats", upd)
    /\ UNCHANGED <<config, sm, tasks, disk>>

GateResend ==
    /\ \E upd \in GateUpdates("message", <<"/resend">>), env \in GateEnvs :
            Step(resend(Start, config, upd, env), env, "resend", upd)
    /\ UNCHANGED <<config, sm, tasks, disk>>

GateReset ==
    /\ \E upd \in GateUpdates("message", <<"/reset">>), env \in GateEnvs :
            Step(reset(Start, config, upd, env), env, "reset", upd)
    /\ UNCHANGED <<config, sm, tasks, disk>>

GateImage ==
    /\ \E upd \in GateUpdates("message", <<"/image", " ", "h">>),
          env \in GateEnvs :
            Step(image(Start, config, upd, env), env, "image", upd)
    /\ UNCHANGED <<config, sm, tasks, disk>>

GateTts ==
    /\ \E upd \in GateUpdates("message", <<"/tts", " ", "h">>),
          env \in GateEnvs :
            Step(tts(Start, config, upd, env), env, "tts", upd)
    /\ UNCHANGED <<config, sm, tasks, disk>>

GateTranscribe ==
    /\ \E upd \in GateUpdates("voice", <<>>), env \in GateEnvs :
            Step(transcribe(Start, config, upd, env), env, "transcribe", upd)
    /\ UNCHANGED <<config, sm, tasks, disk>>

GateVision ==
    /\ \E upd \in GateUpdates("photo", <<"h">>), env \in GateEnvs :
            Step(vision(Start, config, upd, env), env, "vision", upd)
    /\ UNCHANGED <<config, sm, tasks, disk>>

GatePrompt ==
    /\ \E upd \in GateUpdates("message", <<"h">>), env \in GateEnvs :
            Step(prompt(Start, config, upd, env), env, "prompt", upd)
    /\ UNCHANGED <<config, sm, tasks, disk>>

GateInlineQuery ==
    /\ issued < MaxIds
    /\ \E upd \in GateUpdates("inline", <<"a", "b">>)
                      \cup GateUpdates("inline", <<"a", "b", "c">>),
          env \in GateEnvs :
            Step(inline_query(Start, config, upd, env), env,
                 "inline_query", upd)
    /\ UNCHANGED <<config, sm, tasks, disk>>

\* every feature enabled, and every feature disabled; a budget of zero,
\* which no user is within
GateConfigs ==
    {[BaseConfig EXCEPT !.stream = s] : s \in BOOLEAN}
    \cup {[BaseConfig EXCEPT !.budget = 0]}
    \cup {[BaseConfig EXCEPT !.enable_image_generation = FALSE,
                             !.enable_tts_generation = FALSE,
                             !.enable_transcription = FALSE,
                             !.enable_vision = FALSE]}

InitGate == config \in GateConfigs /\ InitState

NextGate ==
    \/ GateStats \/ GateResend \/ GateReset \/ GateImage \/ GateTts
    \/ GateTranscribe \/ GateVision \/ GatePrompt \/ GateInlineQuery

SpecGate == InitGate /\ [][NextGate]_vars

(***************************************************************************)
(* Inline mode and help (specification SpecInline).                        *)
(***************************************************************************)
InlineUpdates ==
    {Update("inline", u, 0, q, "none") :
        u \in GateUsers, q \in {<<"a", "b">>, <<"a", "b", "c">>}}

\* button presses carrying "gpt:" and an identifier, or other data
CallbackUpdates ==
    {Update("callback", u, 0, CallbackPrefix \o str(id), "none") :
        u \in GateUsers, id \in 1..MaxIds}
    \cup {Update("callback", ListedUser, 0, <<"x">>, "none")}

InlineQuery ==
    /\ issued < MaxIds
    /\ \E upd \in InlineUpdates, env \in ChatEnvs :
            Step(inline_query(Start, config, upd, env), env,
                 "inline_query", upd)
    /\ UNCHANGED <<config, sm, tasks, disk>>

Callback ==
    /\ \E upd \in CallbackUpdates, env \in ChatEnvs :
            Step(handle_callback_inline_query(Start, config, upd, env), env,
                 "handle_callback_inline_query", upd)
    /\ UNCHANGED <<config, sm, tasks, disk>>

Help ==
    /\ \E upd \in GateUpdates("message", <<"/help">>), env \in {ProbeEnv} :
            Step(help(Start, config, upd, env), env, "help", upd)
    /\ UNCHANGED <<config, sm, tasks, disk>>

NextInline == InlineQuery \/ Callback \/ Help

SpecInline == Init /\ [][NextInline]_vars

(***************************************************************************)
(* PluginManager (plugin_manager.py).  The plugin classes live in the      *)
(* plugins package and are modelled from the specification's capability    *)
(* contract: a plugin declares function names and executes a call.         *)
(* JSON texts are sequences of tokens.                                     *)
(***************************************************************************)
\* modules found in the plugins directory, with the function names their
\* class declares (get_spec); two of them declare "lookup"
Modules ==
    [wolfram_alpha |-> <<"answer">>, weather |-> <<"forecast", "lookup">>,
     dice |-> <<"roll", "lookup">>]

\* the alias table of __init__: configured name -> module name
alias == [wolfram |-> "wolfram_alpha"]

\* available: the alias name of a module when it has one, else its own name
available ==
    {IF \E k \in DOMAIN alias : alias[k] = m
     THEN CHOOSE k \in DOMAIN alias : alias[k] = m ELSE m : m \in DOMAIN Modules}

\* PluginManager.__init__: self.plugins, one instance per configured name
\* that is non-empty and available, in configuration order
PluginManager(cfg) ==
    SelectSeq(cfg.plugins, LAMBDA name : name # "" /\ name \in available)

\* plugin.get_spec(): the declared function names
get_spec(plugin) ==
    Modules[IF plugin \in DOMAIN alias THEN alias[plugin] ELSE plugin]

\* plugin.get_source_name(): the short human-readable label of the plugin
get_source_name(plugin) ==
    CASE plugin = "wolfram" -> "WolframAlpha"
      [] plugin = "weather" -> "Weather"
      [] plugin = "dice"    -> "Dice"

\* a lookup that returns the last plugin that declares the name
get_plugin_by_function_name_last(plugins, function_name) ==
    LET hits == {j \in 1..Len(plugins) :
                    function_name \in Elems(get_spec(plugins[j]))}
    IN  IF hits = {} THEN 0 ELSE CHOOSE j \in hits : \A k \in hits : j >= k

\* __get_plugin_by_function_name: the position of the first plugin that
\* declares the name, 0 for None
get_plugin_by_function_name(plugins, function_name) ==
    LET hits == {j \in 1..Len(plugins) :
                    function_name \in Elems(get_spec(plugins[j]))}
    IN  IF hits = {} THEN 0 ELSE CHOOSE j \in hits : \A k \in hits : j <= k

\* json.loads of an argument text: a flat object '{"k": d, ...}' becomes a
\* mapping (a repeated key keeps its last value), '[...]' a list, anything
\* else raises
json_loads(s) ==
    LET n == (Len(s) - 1) \div 4
        members == /\ Len(s) >= 5 /\ (Len(s) - 1) % 4 = 0
                   /\ s[1] = "{"
                   /\ \A j \in 1..n :
                        /\ s[4 * j - 2] \in {"p", "q"}
                        /\ s[4 * j - 1] = ":"
                        /\ s[4 * j] \in {"0", "1"}
                        /\ s[4 * j + 1] = (IF j = n THEN "}" ELSE ",")
        keys == {s[4 * j - 2] : j \in 1..n}
        last(k) == CHOOSE j \in 1..n :
                      s[4 * j - 2] = k /\ \A i \in 1..n : s[4 * i - 2] = k => i <= j
    IN  IF s = <<"{", "}">> THEN [ok |-> TRUE, kind |-> "object", value |-> <<>>]
        ELSE IF members
             THEN [ok |-> TRUE, kind |-> "object",
                   value |-> [k \in keys |-> s[4 * last(k)]]]
        ELSE IF Len(s) >= 2 /\ s[1] = "[" /\ s[Len(s)] = "]"
             THEN [ok |-> TRUE, kind |-> "list", value |-> <<>>]
        ELSE [ok |-> FALSE, kind |-> "none", value |-> <<>>]

\* json.dumps(value, default=str) of what call_function returns: the error
\* object, a plain result, a result holding a value JSON cannot encode
\* (written as its str()), a Direct Result
json_dumps(v) ==
    CASE v.kind = "error" ->
            <<"{", "error", ":", "Function " \o v.name \o " not found", "}">>
      [] v.kind = "plain" -> <<"{", "result", ":", v.value, "}">>
      [] v.kind = "object" -> <<"{", "result", ":", "str(" \o v.value \o ")", "}">>
      [] v.kind = "direct_result" ->
            <<"{", "direct_result", ":", "{", "kind", ":", v.value, "}", "}">>

\* what plugin.execute does in a call: it returns a value or raises
Executions ==
    {[raises |-> TRUE, kind |-> "none", value |-> ""]}
    \cup {[raises |-> FALSE, kind |-> k, value |-> "v"] :
            k \in {"plain", "object", "direct_result"}}

\* execute called with the argument text instead of the parsed arguments
call_function_raw_arguments(plugins, function_name, arguments, execution) ==
    LET plugin == get_plugin_by_function_name(plugins, function_name)
        call   == [plugin |-> plugin, name |-> function_name, args |-> arguments]
    IN  IF plugin = 0
        THEN [raised |-> FALSE, executed |-> <<>>,
              result |-> json_dumps([kind |-> "error", name |-> function_name])]
        ELSE [raised |-> execution.raises, executed |-> <<call>>,
              result |-> IF execution.raises THEN <<>> ELSE json_dumps(execution)]

\* call_function(function_name, helper, arguments); executed lists the
\* calls of execute: the plugin's position, the name and the keyword
\* arguments
call_function(plugins, function_name, arguments, execution) ==
    LET plugin == get_plugin_by_function_name(plugins, function_name)
        parsed == json_loads(arguments)
        call   == [plugin |-> plugin, name |-> function_name,
                   args |-> parsed.value]
    IN  IF plugin = 0
        THEN [raised |-> FALSE, executed |-> <<>>,
              result |-> json_dumps([kind |-> "error", name |-> function_name])]
        ELSE IF ~parsed.ok \/ parsed.kind # "object"
        THEN [raised |-> TRUE, executed |-> <<>>, result |-> <<>>]
        ELSE IF execution.raises
        THEN [raised |-> TRUE, executed |-> <<call>>, result |-> <<>>]
        ELSE [raised |-> FALSE, executed |-> <<call>>,
              result |-> json_dumps(execution)]

\* get_plugin_source_name(function_name)
get_plugin_source_name(plugins, function_name) ==
    LET plugin == get_plugin_by_function_name(plugins, function_name)
    IN  IF plugin = 0 THEN "" ELSE get_source_name(plugins[plugin])

\* the backend integration dispatches a function call of the model and
\* asks for the source name of the function
CallFunction ==
    /\ \E function_name \in {"answer", "forecast", "lookup", "roll", "sing"},
          arguments \in {<<"{", "}">>, <<"{", "q", ":", "1", "}">>,
                         <<"{", "q", ":", "0", ",", "q", ":", "1", "}">>,
                         <<"[", "1", "]">>, <<"{", "q">>},
          execution \in Executions :
            ev' = [handler |-> "call_function",
                   function_name |-> function_name, arguments |-> arguments,
                   execution |-> execution,
                   source |-> get_plugin_source_name(PluginManager(config),
                                                     function_name),
                   out |-> call_function(PluginManager(config), function_name,
                                         arguments, execution)]
    /\ UNCHANGED <<config, usage, last_message, inline_queries_cache, issued, sm, tasks, disk>>

\* every list of at most MaxPlugins configured names: empty, aliased,
\* unaliased, a module's own name, unknown
InitPlugins ==
    /\ \E n \in 0..MaxPlugins :
          \E p \in [1..n -> {"", "wolfram", "wolfram_alpha", "weather", "dice",
                             "spotify"}] :
              config = [BaseConfig EXCEPT !.plugins = p]
    /\ InitState

SpecPlugins == InitPlugins /\ [][CallFunction]_vars


(***************************************************************************)
(* Concurrent handler tasks (specification SpecTasks).  The application is *)
(* built with concurrent_updates(True) (setup_helpers.py): every update is *)
(* handled in a task of its own on one event loop, so the code between two *)
(* awaits of a handler runs without interruption and tasks interleave at   *)
(* the awaits.  tasks holds the handler, the await a task is suspended at  *)
(* (pc) and its locals; disk is the set of temporary files that exist.     *)
(* All updates come from one allow-listed user in a private chat.          *)
(***************************************************************************)
Task(kind, pc, text, key, hit) ==
    [kind |-> kind, pc |-> pc, text |-> text, key |-> key, hit |-> hit,
     backend |-> 0, failed |-> FALSE]

\* a text message, a /resend or a voice message arrives: its handler runs
\* up to its first await (the gate, is_allowed, the download)
TaskStart ==
    /\ Len(tasks) < NTasks
    /\ \E kind \in {"prompt", "resend", "transcribe"} :
         tasks' = Append(tasks,
                    Task(kind,
                         CASE kind = "prompt" -> "gate"
                           [] kind = "resend" -> "is_allowed"
                           [] kind = "transcribe" -> "download",
                         IF kind = "prompt"
                         THEN <<"m">> \o str(Len(tasks) + 1) ELSE <<>>,
                         <<>>, FALSE))
    /\ UNCHANGED <<config, usage, last_message, inline_queries_cache, issued,
                   ev, sm, disk>>

\* prompt resumes after the gate and caches its text (line 359-367)
PromptWriteIfAbsent ==
    /\ \E t \in 1..Len(tasks) :
         /\ tasks[t].kind \in {"prompt", "resend"} /\ tasks[t].pc = "gate"
         /\ tasks' = [tasks EXCEPT ![t].pc = "backend"]
         /\ last_message' = IF ListedUser \in DOMAIN last_message
                            THEN last_message
                            ELSE (ListedUser :> tasks[t].text) @@ last_message
    /\ UNCHANGED <<config, usage, inline_queries_cache, issued, ev, sm, disk>>

PromptWrite ==
    /\ \E t \in 1..Len(tasks) :
         /\ tasks[t].kind \in {"prompt", "resend"} /\ tasks[t].pc = "gate"
         /\ IF Gate(config, usage, ListedUser) = "pass"
            THEN /\ tasks' = [tasks EXCEPT ![t].pc = "backend"]
                 /\ last_message' = (ListedUser :> tasks[t].text) @@ last_message
            ELSE /\ tasks' = [tasks EXCEPT ![t].pc = "done"]
                 /\ last_message' = last_message
    /\ UNCHANGED <<config, usage, inline_queries_cache, issued, ev, sm, disk>>

\* the backend answers the prompt and the handler runs to its end
PromptAnswer ==
    /\ \E t \in 1..Len(tasks) :
         /\ tasks[t].kind \in {"prompt", "resend"} /\ tasks[t].pc = "backend"
         /\ tasks' = [tasks EXCEPT ![t].pc = "done", ![t].backend = @ + 1]
    /\ UNCHANGED <<config, usage, last_message, inline_queries_cache, issued,
                   ev, sm, disk>>

\* a resend that reads the cached text and leaves it in the cache
ResendPopKeeping ==
    /\ \E t \in 1..Len(tasks) :
         /\ tasks[t].kind = "resend" /\ tasks[t].pc = "is_allowed"
         /\ tasks' = IF ListedUser \in DOMAIN last_message
                     THEN [tasks EXCEPT ![t].pc = "gate", ![t].hit = TRUE,
                                        ![t].text = last_message[ListedUser]]
                     ELSE [tasks EXCEPT ![t].pc = "done"]
    /\ UNCHANGED <<config, usage, last_message, inline_queries_cache, issued,
                   ev, sm, disk>>

\* resend resumes after is_allowed: the membership test, the pop and the
\* call of prompt up to its gate (command_handlers.py:171-187); a pop of a
\* missing key would raise KeyError
ResendPop ==
    /\ \E t \in 1..Len(tasks) :
         /\ tasks[t].kind = "resend" /\ tasks[t].pc = "is_allowed"
         /\ IF ListedUser \in DOMAIN last_message
            THEN /\ tasks' = [tasks EXCEPT ![t].pc = "gate", ![t].hit = TRUE,
                                           ![t].text = last_message[ListedUser]]
                 /\ last_message' = [c \in DOMAIN last_message \ {ListedUser}
                                       |-> last_message[c]]
            ELSE /\ tasks' = [tasks EXCEPT ![t].pc = "done"]
                 /\ last_message' = last_message
    /\ UNCHANGED <<config, usage, inline_queries_cache, issued, ev, sm, disk>>

\* inline_query caches a query under a fresh identifier
TaskInlineQuery ==
    /\ issued < MaxIds
    /\ issued' = issued + 1
    /\ inline_queries_cache' =
          (str(issued + 1) :> InlineQueryText) @@ inline_queries_cache
    /\ UNCHANGED <<config, usage, last_message, ev, sm, tasks, disk>>

\* a callback that reads the cache and pops the entry after its await
CallbackStartKeeping ==
    /\ Len(tasks) < NTasks
    /\ \E id \in 1..MaxIds :
         LET key == str(id)
             hit == key \in DOMAIN inline_queries_cache
         IN  tasks' = Append(tasks,
                        Task("callback", IF hit THEN "backend" ELSE "notice",
                             IF hit THEN inline_queries_cache[key] ELSE <<>>,
                             key, hit))
    /\ UNCHANGED <<config, usage, last_message, inline_queries_cache, issued,
                   ev, sm, disk>>

\* a button is pressed: handle_callback_inline_query runs up to its first
\* await, through the cache lookup and the pop (line 564-590)
CallbackStart ==
    /\ Len(tasks) < NTasks
    /\ \E id \in 1..MaxIds :
         LET key == str(id)
             hit == /\ key \in DOMAIN inline_queries_cache
                    /\ inline_queries_cache[key] # <<>>
         IN  /\ tasks' = Append(tasks,
                           Task("callback",
                                IF hit THEN "backend" ELSE "notice",
                                IF hit THEN inline_queries_cache[key] ELSE <<>>,
                                key, hit))
             /\ inline_queries_cache' =
                  IF hit
                  THEN [k \in DOMAIN inline_queries_cache \ {key}
                          |-> inline_queries_cache[k]]
                  ELSE inline_queries_cache
    /\ UNCHANGED <<config, usage, last_message, issued, ev, sm, disk>>

\* the callback resumes: the backend has answered and the usage is
\* recorded, or the 'try again' notice has been shown
CallbackAnswer ==
    /\ \E t \in 1..Len(tasks) :
         /\ tasks[t].kind = "callback" /\ tasks[t].pc \in {"backend", "notice"}
         /\ tasks' = [tasks EXCEPT
                        ![t].pc = "done",
                        ![t].backend = IF tasks[t].pc = "backend"
                                       THEN @ + 1 ELSE @]
    /\ UNCHANGED <<config, usage, last_message, inline_queries_cache, issued,
                   ev, sm, disk>>

\* download_to_drive has written the file; the voice messages of this
\* specification carry the same attachment, so one file_unique_id and one
\* pair of file names (message_handlers.py:52-59)
TranscribeDownload ==
    /\ \E t \in 1..Len(tasks) :
         /\ tasks[t].kind = "transcribe" /\ tasks[t].pc = "download"
         /\ tasks' = [tasks EXCEPT ![t].pc = "convert"]
    /\ disk' = disk \cup {"file"}
    /\ UNCHANGED <<config, usage, last_message, inline_queries_cache, issued,
                   ev, sm>>

\* transcribe resumes after the download: it reads the file, exports the
\* mp3 and hands it to the backend (line 73-98); a missing file raises and
\* the except clause reports it
TranscribeConvert ==
    /\ \E t \in 1..Len(tasks) :
         /\ tasks[t].kind = "transcribe" /\ tasks[t].pc = "convert"
         /\ IF "file" \in disk
            THEN /\ tasks' = [tasks EXCEPT ![t].pc = "transcribing"]
                 /\ disk' = disk \cup {"mp3"}
            ELSE /\ tasks' = [tasks EXCEPT ![t].pc = "done", ![t].failed = TRUE]
                 /\ disk' = disk
    /\ UNCHANGED <<config, usage, last_message, inline_queries_cache, issued,
                   ev, sm>>

\* the transcription is answered and the finally clause removes the two
\* files (line 152-156)
TranscribeCleanup ==
    /\ \E t \in 1..Len(tasks) :
         /\ tasks[t].kind = "transcribe" /\ tasks[t].pc = "transcribing"
         /\ tasks' = [tasks EXCEPT ![t].pc = "done", ![t].backend = @ + 1]
    /\ disk' = os_remove([files |-> disk], {"file", "mp3"}).files
    /\ UNCHANGED <<config, usage, last_message, inline_queries_cache, issued,
                   ev, sm>>

NextTasks ==
    \/ TaskStart \/ PromptWrite \/ PromptAnswer \/ ResendPop
    \/ TaskInlineQuery \/ CallbackStart \/ CallbackAnswer
    \/ TranscribeDownload \/ TranscribeConvert \/ TranscribeCleanup

SpecTasks == InitStream /\ [][NextTasks]_vars
(***************************************************************************)
(* Claims about prompt and resend (Spec).                                  *)
(***************************************************************************)
\* a prompt that passed the gate leaves its text cached for the chat
PromptCached ==
    (ev.handler = "prompt" /\ ev.gate = "pass")
        => /\ ev.chat \in DOMAIN last_message
           /\ last_message[ev.chat] = message_text(ev.text)

\* the first resend after it, by a user the allow-list admits, removes the
\* entry and runs the prompt path with the cached text
FirstResendReplays ==
    (ev.handler = "resend" /\ ev.after = "prompt" /\ ev.gate # "denied")
        => /\ ev.replayed
           /\ ev.text = message_text(ev.prev_text)
           /\ ev.backend = 1 => ev.query \in {message_text(ev.text),
                                              GroupTrigger(config, ev, message_text(ev.text)).prompt}
           /\ ev.gate # "pass" => ev.chat \notin DOMAIN last_message

\* a resend that finds nothing: the notice, and no backend call
NothingToResend ==
    ev.sent = <<"resend_failed">> /\ ev.backend = 0 /\ ~ev.replayed

GroupPrompt ==
    /\ ev.handler = "prompt" /\ ev.chat = GroupChat /\ ev.gate = "pass"
    /\ config.group_trigger_keyword # <<>>

StartsWithKeyword ==
    startswith(lower(ev.text), lower(config.group_trigger_keyword))

\* the text after the keyword, without surrounding whitespace
Rest == strip(drop(ev.text, Len(config.group_trigger_keyword)))

\* no keyword, no /chat command, no reply to the bot: no backend call
UntriggeredIgnored ==
    (GroupPrompt /\ ~StartsWithKeyword /\ Head(ev.text) # "/chat"
     /\ ev.reply # "bot") => ev.backend = 0

\* C4 as stated: an untriggered group message causes no backend call, and a
\* message 'K rest' reaches the backend with the prompt text 'rest'
C4_KeywordStripped ==
    /\ UntriggeredIgnored
    /\ (GroupPrompt /\ StartsWithKeyword)
        => (ev.backend = 1 /\ ev.query = Rest)

\* C4 amended: the prompt text is 'rest', preceded by the quoted text of the
\* message replied to when that is a text message of another user
C4_KeywordStrippedQuoteKept ==
    /\ UntriggeredIgnored
    /\ (GroupPrompt /\ StartsWithKeyword)
        => /\ ev.backend = 1
           /\ ev.query = IF ev.reply = "user" THEN Quote(Rest) ELSE Rest

C4_Witness ==
    /\ GroupPrompt /\ ev.text = <<"K", " ", "h">> /\ ev.backend = 1
    /\ ev.query = <<"h">>

\* C7 as stated: whenever the backend of a prompt turn completes and reports
\* N total tokens, add_chat_request_to_usage_tracker is called exactly once
\* with N, with stream on or off, Direct Result answers included (stated
\* for the turns that end without a failure notice)
C7_TokensRecordedOnce ==
    (ev.handler = "prompt" /\ ev.backend = 1 /\ ev.reported > 0
     /\ ev.sent = <<>>)
        => ev.tracker = <<ev.reported>>

(***************************************************************************)
(* Claims about the gate (SpecGate).                                       *)
(***************************************************************************)
\* C2: an invocation of stats, resend, reset, image, tts, transcribe,
\* vision, prompt or inline_query whose allow-list check fails sends exactly
\* one disallowed notification and nothing else, and calls no backend
C2_DeniedSendsOneNotice ==
    ev.gate = "denied"
        => /\ ev.sent = <<"disallowed">>
           /\ ev.backend = 0
           /\ ev.answers = 0 /\ ev.direct = 0

C2_Witness ==
    /\ ev.handler = "reset" /\ ev.user = Stranger /\ ev.gate = "denied"
    /\ ev.sent = <<"disallowed">>

BudgetGated == {"image", "tts", "transcribe", "vision", "prompt", "inline_query"}

\* C3: an invocation of image, tts, transcribe, vision, prompt or
\* inline_query by an allowed user who is not within budget sends exactly
\* one budget-reached notice, calls no backend, changes no usage record and
\* leaves last_message and inline_queries_cache unchanged
C3_OverBudgetChangesNothing ==
    [][(ev'.handler \in BudgetGated /\ ev'.gate = "budget")
        => /\ ev'.sent = <<"budget_limit">>
           /\ ev'.backend = 0 /\ ev'.answers = 0
           /\ usage' = usage
           /\ last_message' = last_message
           /\ inline_queries_cache' = inline_queries_cache]_vars

C3_Witness ==
    /\ ev.handler = "inline_query" /\ ev.user = ListedUser
    /\ ev.gate = "budget" /\ ev.sent = <<"budget_limit">>
    /\ ~is_within_budget(config, usage, ListedUser)

(***************************************************************************)
(* Claims about the media handlers (SpecMedia).                            *)
(***************************************************************************)
\* C8 as stated: a prompt or vision turn whose backend yields a Direct
\* Result sends or edits no text reply carrying model output, hands the
\* payload to Direct Result delivery exactly once and removes its temporary
\* files exactly once
C8_DirectResultBypassesText ==
    (ev.handler \in {"prompt", "vision"} /\ ev.backend = 1 /\ ev.dr)
        => (ev.answers = 0 /\ ev.direct = 1 /\ ev.cleanup = 1)

MediaHandlers == {"image", "tts", "transcribe", "vision"}

\* the quantity of one kind recorded under a key (0 without a record)
Recorded(u, key, kind) == IF key \in DOMAIN u THEN u[key][kind] ELSE 0

\* a media handler recorded a usage event for its user
RecordsUsage ==
    /\ ev'.handler \in MediaHandlers
    /\ \E kind \in UsageKinds :
         Recorded(usage', ev'.user, kind) # Recorded(usage, ev'.user, kind)

\* the user's record and the pooled record grow by the same amounts
PooledAlike ==
    \A kind \in UsageKinds :
        Recorded(usage', ev'.user, kind) - Recorded(usage, ev'.user, kind)
            = Recorded(usage', Guests, kind) - Recorded(usage, Guests, kind)

PoolUntouched ==
    \A kind \in UsageKinds :
        Recorded(usage', Guests, kind) = Recorded(usage, Guests, kind)

C10_ListedEventsNotPooled ==
    [][(RecordsUsage /\ InList(ev'.user, config.allowed_user_ids))
        => /\ PoolUntouched
           /\ Guests \in DOMAIN usage' <=> Guests \in DOMAIN usage]_vars

C10_Witness ==
    /\ ev.handler = "tts" /\ ev.user = ListedUser
    /\ ListedUser \in DOMAIN usage /\ Guests \in DOMAIN usage
    /\ usage[ListedUser]["tts_characters"] = 1
    /\ get_current_cost(usage[Guests]) = 0

(***************************************************************************)
(* Claims about the plugin manager (SpecPlugins).                          *)
(***************************************************************************)
\* positions of the activated plugins that declare the called function
Declaring ==
    {j \in 1..Len(PluginManager(config)) :
        ev.function_name \in Elems(get_spec(PluginManager(config)[j]))}

\* the argument text is the JSON text of an object
ArgumentsAreObject ==
    ev.arguments \in {<<"{", "}">>, <<"{", "q", ":", "1", "}">>,
                      <<"{", "q", ":", "0", ",", "q", ":", "1", "}">>}

\* the keyword arguments an argument text stands for
ParsedArguments ==
    IF ~ArgumentsAreObject \/ ev.arguments = <<"{", "}">> THEN <<>>
    ELSE [q |-> "1"]

\* the JSON text of what execute returned
EncodedResult ==
    CASE ev.execution.kind = "plain" -> <<"{", "result", ":", "v", "}">>
      [] ev.execution.kind = "object" -> <<"{", "result", ":", "str(v)", "}">>
      [] ev.execution.kind = "direct_result" ->
            <<"{", "direct_result", ":", "{", "kind", ":", "v", "}", "}">>
      [] OTHER -> <<>>

\* execute ran once, on the declaring plugin, with the parsed arguments
ExecutedOnce ==
    /\ Len(ev.out.executed) = 1
    /\ ev.out.executed[1].plugin \in Declaring
    /\ ev.out.executed[1].name = ev.function_name
    /\ ev.out.executed[1].args = ParsedArguments

\* an undeclared name: the error object, and no execute
UndeclaredIsError ==
    (ev.handler = "call_function" /\ Declaring = {})
        => /\ ev.out.executed = <<>>
           /\ ~ev.out.raised
           /\ ev.out.result = <<"{", "error", ":",
                                "Function " \o ev.function_name \o " not found", "}">>

\* C11 as stated: a name declared by exactly one activated plugin runs that
\* plugin's execute exactly once with the parsed JSON arguments and returns
\* its JSON-encoded result; an undeclared name returns the error object and
\* runs no execute
C11_DispatchExecutesOnce ==
    /\ UndeclaredIsError
    /\ (ev.handler = "call_function" /\ Cardinality(Declaring) = 1)
        => (ExecutedOnce /\ ~ev.out.raised /\ ev.out.result = EncodedResult)

\* C11 amended: the same when the argument text is a JSON object and execute
\* returns; another argument text raises before execute is called, and an
\* execute that raises makes call_function raise
C11_DispatchExecutesOnceOnObject ==
    /\ UndeclaredIsError
    /\ (ev.handler = "call_function" /\ Cardinality(Declaring) = 1)
        => IF ~ArgumentsAreObject
           THEN ev.out.raised /\ ev.out.executed = <<>>
           ELSE /\ ExecutedOnce
                /\ ev.out.raised = ev.execution.raises
                /\ ~ev.out.raised => ev.out.result = EncodedResult

C11_Witness ==
    /\ ev.handler = "call_function"
    /\ Len(PluginManager(config)) = 2 /\ Declaring = {2}
    /\ ExecutedOnce /\ ev.out.executed[1].args = [q |-> "1"]
    /\ ev.arguments = <<"{", "q", ":", "0", ",", "q", ":", "1", "}">>
    /\ ev.out.result = <<"{", "result", ":", "str(v)", "}">>

(***************************************************************************)
(* Claims about inline mode (SpecInline).                                  *)
(***************************************************************************)
\* the identifier carried by the callback data of the invocation in ev
CallbackId(e) == split(e.text, ":", <<>>)[2]

IsCallback(e) ==
    e.handler = "handle_callback_inline_query" /\ startswith(e.text, CallbackPrefix)

\* identifiers inline_query has issued and a callback has consumed
Consumed == {str(j) : j \in 1..issued} \ DOMAIN inline_queries_cache

\* the invocation made no backend call and recorded nothing
NothingAsked(e) == e.backend = 0 /\ e.tracker = <<>> /\ e.answers = 0

\* C12: a callback that finds its identifier in the cache removes it,
\* whatever the backend call does afterwards; a consumed identifier never
\* returns to the cache; every later callback with it edits the message to
\* the 'error, try again' notice, calls no backend and records no usage
C12_CacheEntrySingleUse ==
    [][/\ (IsCallback(ev') /\ CallbackId(ev') \in DOMAIN inline_queries_cache)
            => CallbackId(ev') \notin DOMAIN inline_queries_cache'
       /\ Consumed \subseteq
            ({str(j) : j \in 1..issued'} \ DOMAIN inline_queries_cache')
       /\ (IsCallback(ev') /\ CallbackId(ev') \in Consumed)
            => /\ Head(ev'.sent) = "try_again"
               /\ NothingAsked(ev')
               /\ usage' = usage]_vars

C12_Witness ==
    /\ IsCallback(ev) /\ CallbackId(ev) \in Consumed
    /\ ev.sent = <<"try_again">> /\ NothingAsked(ev)
    /\ inline_queries_cache # <<>>

(***************************************************************************)
(* Claims about the streaming loop (SpecStream), continued.                *)
(***************************************************************************)
\* C13: every text the loop sends or edits, in prompt, vision and the
\* inline callback, is at most the message-length limit long
C13_TextsWithinLimit ==
    \A j \in 1..Len(sm.s.ops) : Len(sm.s.ops[j].text) <= MsgLimit


\* the names of the two temporary files of a transcribe invocation
TempFiles == {"file", "mp3"}

\* C14: when a transcribe invocation that started a download ends, on any
\* of its exit paths, neither the downloaded file nor the transcoded .mp3
\* exists
C14_TranscribeLeavesNoFile ==
    ev.handler = "transcribe" => ev.files \cap TempFiles = {}

\* the last pair went to the throttled edit, which the platform answered
\* with "retry after N seconds"
RateLimited ==
    /\ sm.phase \in {"streaming", "done"}
    /\ sm.s.i > 0
    /\ sm.f.a = "retry_after"
    /\ Len(sm.s.ops) = 1
    /\ sm.s.ops[1].op = "edit"

\* C15: when the edit for a pair fails with the retry-after signal, backoff
\* grows by 5 and the edit for the same pair is attempted again, so that
\* the pair's text is not skipped
C15_RetryAfterRetriesPair ==
    [][RateLimited' =>
          /\ sm'.s.backoff = sm.s.backoff + BackoffStep
          /\ \E j \in 2..Len(sm'.s.ops) :
                /\ sm'.s.ops[j].op = "edit"
                /\ sm'.s.ops[j].text = sm'.s.ops[1].text]_vars

\* the part of C15 the loop does: backoff grows by 5
RetryAfterGrowsBackoff ==
    [][RateLimited' => sm'.s.backoff = sm.s.backoff + BackoffStep]_vars

\* the loop took a pair while a first message existed and issued one edit
\* for it, without an overflow split
EditIssued ==
    /\ sm.phase = "streaming" /\ sm'.n = sm.n + 1
    /\ sm.s.i > 0 /\ sm.s.sent # 0
    /\ Len(sm'.s.ops) = 1
    /\ sm'.s.ops[1].op = "edit"

\* the text the message showed before the pair, the content the cutoff is
\* computed from, and the threshold
Displayed == sm.s.msgs[sm.s.sent].text

NewContent ==
    IF sm.mode = "inline" THEN RefText(sm'.len) ELSE sm'.s.ops[1].text

Threshold ==
    get_stream_cutoff_values(sm.isGroup, NewContent) + sm.s.backoff

\* C19: with a first message in place, a non-overflow edit is issued for a
\* pair only if the lengths of the new text and of the text displayed
\* before differ by more than the dynamic cutoff plus the backoff, or the
\* pair carries the completion marker; the final pair always has its edit
\* attempted
C19_EditsThrottled ==
    [][/\ EditIssued =>
            \/ Abs(Len(sm'.s.ops[1].text) - Len(Displayed)) > Threshold
            \/ sm'.phase = "done"
       /\ (sm.phase = "streaming" /\ sm'.phase = "done" /\ sm.s.i > 0)
            => \E j \in 1..Len(sm'.s.ops) : sm'.s.ops[j].op = "edit"]_vars

\* the part of C19 the loop does: the final pair has its edit attempted,
\* and an edit is issued only past the threshold measured from prev, the
\* content of the last throttled edit attempted
FinalPairForcesEdit ==
    [][/\ EditIssued =>
            \/ Abs(Len(NewContent) - Len(sm.s.prev)) > Threshold
            \/ sm'.phase = "done"
       /\ (sm.phase = "streaming" /\ sm'.phase = "done" /\ sm.s.i > 0)
            => \E j \in 1..Len(sm'.s.ops) : sm'.s.ops[j].op = "edit"]_vars
(***************************************************************************)
(* Claims about the media handlers (SpecMedia), continued.                 *)
(***************************************************************************)
\* the invocation of vision or transcribe reported a failed download or a
\* failed transcode or image decode
MediaFailed ==
    /\ ev.handler \in {"vision", "transcribe"}
    /\ \E j \in 1..Len(ev.sent) :
          ev.sent[j] \in {"media_download_fail", "media_type_fail"}

\* C16: when the download, the audio transcode or the image decode fails,
\* vision and transcribe send one failure message and stop, with no backend
\* call and no usage recorded
C16_MediaFailureStops ==
    MediaFailed => /\ Len(ev.sent) = 1
                   /\ ev.backend = 0
                   /\ ev.ops = <<>>

\* the part of C16 that holds: transcribe, and the download of vision
TranscribeFailureStops ==
    (MediaFailed /\ (ev.handler = "transcribe"
                     \/ ev.sent[1] = "media_download_fail"))
        => /\ Len(ev.sent) = 1
           /\ ev.backend = 0
           /\ ev.ops = <<>>

\* transcribe obtained a transcript: its seconds are on the user's record
Transcribed ==
    /\ ev.handler = "transcribe"
    /\ \E j \in 1..Len(ev.ops) : ev.ops[j][2] = "transcription_seconds"

\* the transcript begins, whatever the case, with a non-empty prefix of
\* voice_reply_prompts
BeginsWithVoicePrompt ==
    \E j \in 1..Len(config.voice_reply_prompts) :
        LET prefix == config.voice_reply_prompts[j]
        IN  /\ prefix # <<>>
            /\ Len(prefix) <= Len(ev.transcript)
            /\ \A k \in 1..Len(prefix) :
                  lower(<<ev.transcript[k]>>) = lower(<<prefix[k]>>)

RawShape == config.voice_reply_transcript /\ ~BeginsWithVoicePrompt

ChatTokensRecorded ==
    \E j \in 1..Len(ev.ops) :
        ev.ops[j][1] = ev.user /\ ev.ops[j][2] = "chat_tokens"

\* C21: after a successful transcription the chat backend is called, with
\* the transcript, exactly when the raw-transcript shape does not apply
\* (voice_reply_transcript set and no voice-reply prefix at the head of the
\* transcript), and its tokens are recorded when it answers; in the raw
\* shape only the quoted transcript is sent, in chunks; the transcription
\* seconds are the first usage event, recorded before any reply
C21_TranscribeReplyShape ==
    /\ Transcribed =>
          /\ ev.ops[1] = <<ev.user, "transcription_seconds", AudioSeconds>>
          /\ (ev.backend = 2) <=> ~RawShape
          /\ ev.backend = 2 => ev.query = ev.transcript
          /\ ChatTokensRecorded <=> (~RawShape /\ ev.reported > 0)
          /\ (RawShape /\ ev.sent = <<>>)
                => ev.answers =
                     Len(split_into_chunks(TranscriptOutput(ev.transcript)))
    /\ (ev.handler = "transcribe" /\ ev.answers > 0) => Transcribed

C21_Witness ==
    /\ Transcribed /\ config.voice_reply_transcript
    /\ ev.transcript = <<"K", "h">> /\ ev.backend = 2 /\ ChatTokensRecorded

\* vision went on to the download of the photo
VisionProcessed ==
    /\ ev.handler = "vision" /\ ev.gate = "pass"
    /\ ev.backend > 0 \/ ev.sent # <<>>

\* the caption exists and begins, whatever the case, with the keyword
CaptionHasKeyword ==
    LET kw == config.group_trigger_keyword
    IN  /\ ev.text # NoCaption
        /\ Len(kw) <= Len(ev.text)
        /\ \A k \in 1..Len(kw) : lower(<<ev.text[k]>>) = lower(<<kw[k]>>)

\* C22: a group photo is interpreted only if ignore_group_vision is clear
\* and, with a trigger keyword configured, its caption exists and begins
\* with the keyword in any case; without caption only when the keyword is
\* empty; in a private chat every photo that passes the gate is interpreted
C22_VisionGroupGating ==
    (ev.handler = "vision" /\ ev.gate = "pass")
        => (VisionProcessed <=>
                \/ ev.chat # GroupChat
                \/ /\ ~config.ignore_group_vision
                   /\ config.group_trigger_keyword # <<>> => CaptionHasKeyword)

C22_Witness ==
    /\ VisionProcessed /\ ev.chat = GroupChat /\ ev.backend = 1
    /\ config.group_trigger_keyword = <<"k">>
    /\ ev.text = <<"K", " ", "h">>
(***************************************************************************)
(* Claims about prompt and the generation commands (Spec, SpecMedia).      *)
(***************************************************************************)
\* prompt forwarded a message that replies to a text message of a user
QuotingReply ==
    ev.handler = "prompt" /\ ev.backend = 1 /\ ev.reply = "user"

\* the user's prompt: the message text, in a group chat without the keyword
UserPrompt ==
    LET p == message_text(ev.text)
    IN  IF ev.chat = GroupChat
           /\ startswith(lower(p), lower(config.group_trigger_keyword))
        THEN strip(drop(p, Len(config.group_trigger_keyword)))
        ELSE p

\* C17 as stated: a processed message that replies to a text message not
\* written by the bot reaches the backend as the quoted text followed by
\* the user's prompt, in private chats as in group chats
C17_ReplyQuoted == QuotingReply => ev.query = Quote(UserPrompt)

\* C17 amended: the quoted text is prepended in group chats only; in a
\* private chat the backend receives the user's prompt alone
C17_ReplyQuotedInGroups ==
    QuotingReply => ev.query = IF ev.chat = GroupChat THEN Quote(UserPrompt)
                               ELSE UserPrompt

C17_Witness ==
    /\ QuotingReply /\ ev.chat = GroupChat
    /\ ev.text = <<"k", " ", "h">>
    /\ ev.query = <<"'", "q", "'", " ", "h">>

\* last_message with the entry of the chat set to the text
Cached(text) ==
    [c \in DOMAIN last_message \cup {ev'.chat} |->
        IF c = ev'.chat THEN text ELSE last_message[c]]

\* C18 as stated: a prompt that passes the gate sets last_message[chat] to
\* the raw text of the message before the group checks, also when the group
\* checks then ignore the message; edited messages, via-bot messages and
\* messages the gate rejects leave last_message unchanged
C18_RawTextCached ==
    [][ev'.handler = "prompt" =>
          last_message' = IF ev'.gate = "pass" THEN Cached(ev'.text)
                          ELSE last_message]_vars

\* C18 amended: the text cached is the one message_text extracts, without a
\* leading command token (and with the trigger keyword still in it)
C18_MessageTextCached ==
    [][ev'.handler = "prompt" =>
          last_message' = IF ev'.gate = "pass"
                          THEN Cached(message_text(ev'.text))
                          ELSE last_message]_vars

\* an untriggered group message, ignored, is the chat's last message
C18_Witness ==
    /\ ev.handler = "prompt" /\ ev.gate = "pass" /\ ev.chat = GroupChat
    /\ ev.text = <<"h">> /\ ev.reply = "none" /\ ev.backend = 0
    /\ last_message[GroupChat] = <<"h">>

\* image or tts asked the backend for an image or for speech
Generating == ev.handler \in {"image", "tts"} /\ ev.backend = 1

\* what the statement of C20 says of such an invocation: a usage event for
\* the user exactly when the result was delivered, and otherwise one
\* failure message and no usage event
UsageIffDelivered ==
    /\ (\E j \in 1..Len(ev.ops) : ev.ops[j][1] = ev.user) <=> ev.answers = 1
    /\ ev.answers = 0 => /\ ev.sent \in {<<"image_fail">>, <<"tts_fail">>}
                         /\ ev.ops = <<>>

\* C20: image and tts record a usage event for the user if and only if the
\* generation and the delivery both succeeded; on an exception in either
\* (an invalid image_receive_mode included) one failure message is sent
\* and no usage record changes
C20_UsageIffDelivered == Generating => UsageIffDelivered

\* the part of C20 that holds: the same for a user who has a usage record
UsageIffDeliveredWithRecord ==
    [][(Generating' /\ ev'.user \in DOMAIN usage) => UsageIffDelivered']_vars
(***************************************************************************)
(* Claims about the gate and the command handlers (SpecGate, SpecInline).  *)
(***************************************************************************)
\* what C23 says a call of check_allowed_and_within_budget for the user
\* does, given the maps before the call: the signal it returns and the
\* notification it sends
GateSays(user) ==
    IF ~is_allowed(config, user) THEN <<"denied", <<"disallowed">> >>
    ELSE IF ~is_within_budget(config, usage, user)
         THEN <<"budget", <<"budget_limit">> >>
    ELSE <<"pass", <<>> >>

\* C23: check_allowed_and_within_budget tests the allow-list before the
\* budget and sends at most one notification: the disallowed notice for a
\* user who is not allowed, over budget or not, the budget notice for an
\* allowed user over budget; it passes exactly when both tests pass, and
\* then sends nothing and leaves last_message and inline_queries_cache as
\* they were; each gated handler acts on that signal
C23_GateOrderAndFrame ==
    [][/\ \A user \in GateUsers :
            LET r == check_allowed_and_within_budget(Start, config, user)
            IN  /\ <<r.gate, r.sent>> = GateSays(user)
                /\ r.lm = last_message
                /\ r.cache = inline_queries_cache
                /\ r.backend = 0 /\ r.answers = 0
       /\ (ev'.handler \in BudgetGated /\ ev'.gate # "none")
            => /\ ev'.gate = GateSays(ev'.user)[1]
               /\ ev'.gate # "pass" => ev'.sent = GateSays(ev'.user)[2]]_vars

\* a user outside the allow-list and not within budget is told so once
C23_Witness ==
    /\ ev.handler = "prompt" /\ ev.user = Stranger
    /\ ~is_within_budget(config, usage, Stranger)
    /\ ev.gate = "denied" /\ ev.sent = <<"disallowed">>

CommandHandlers == {"help", "stats", "resend", "reset", "image", "tts"}

\* C24: a user for whom is_allowed is false receives from a command
\* handler (help, stats, resend, reset, image, tts) no reply other than the
\* disallowed notice
C24_CommandsValidateFirst ==
    (ev.handler \in CommandHandlers /\ ~is_allowed(config, ev.user))
        => /\ ev.sent \in {<<>>, <<"disallowed">>}
           /\ ev.answers = 0 /\ ev.backend = 0

\* the part of C24 that holds: the same for the five handlers other than
\* help (checked in SpecGate)
GatedCommandsValidateFirst ==
    (ev.handler \in CommandHandlers \ {"help"} /\ ~is_allowed(config, ev.user))
        => /\ ev.sent \in {<<>>, <<"disallowed">>}
           /\ ev.answers = 0 /\ ev.backend = 0

\* a group message the group checks of its handler drop: a text without
\* the keyword, without /chat and not replying to the bot; a voice message
\* under ignore_group_transcriptions; a photo that fails the vision gating
GroupIgnorable ==
    /\ ev.chat = GroupChat
    /\ \/ /\ ev.handler = "prompt"
          /\ ev.text # <<>> /\ Head(ev.text) # "/chat"
          /\ ev.reply # "bot"
          /\ \E k \in 1..Len(config.group_trigger_keyword) :
                \/ k > Len(ev.text)
                \/ lower(<<ev.text[k]>>) # lower(<<config.group_trigger_keyword[k]>>)
       \/ /\ ev.handler = "transcribe"
          /\ config.ignore_group_transcriptions
       \/ /\ ev.handler = "vision"
          /\ \/ config.ignore_group_vision
             \/ config.group_trigger_keyword # <<>> /\ ~CaptionHasKeyword

NothingDone ==
    /\ ev.sent = <<>> /\ ev.answers = 0 /\ ev.direct = 0
    /\ ev.backend = 0 /\ ev.files = {}

\* C25: such a message is ignored entirely, whoever sent it: the bot sends
\* no reply and no notification, downloads nothing and calls no backend
C25_GroupIgnoredSilently == GroupIgnorable => NothingDone

\* the part of C25 that holds: the same for a sender the gate lets pass
GroupIgnoredSilentlyPastGate ==
    (GroupIgnorable /\ ev.gate \notin {"denied", "budget"}) => NothingDone

\* C26: inline_query leaves a query shorter than 3 characters alone (no
\* gate, no cache entry, no answer); for a longer query of a user who
\* passes the gate it adds exactly one cache entry, a fresh identifier
\* mapped to the raw query, and answers with one article whose callback
\* data is 'gpt:' and that identifier; an error of the answer is swallowed
C26_InlineQueryCaches ==
    [][ev'.handler = "inline_query" =>
          /\ ~ev'.raised
          /\ Len(ev'.text) < MinQueryLen =>
                /\ ev'.gate = "none" /\ ev'.sent = <<>>
                /\ inline_queries_cache' = inline_queries_cache
          /\ (Len(ev'.text) >= MinQueryLen /\ ev'.gate = "pass") =>
                \E id \in DOMAIN inline_queries_cache' :
                    /\ id \notin {str(j) : j \in 1..issued}
                    /\ inline_queries_cache' =
                          (id :> ev'.text) @@ inline_queries_cache
                    /\ ev'.sent \in {<<>>, <<"inline_result">>}
                    /\ ev'.sent # <<>> => ev'.callback_data = CallbackPrefix \o id
          /\ ev'.gate \in {"denied", "budget"} =>
                inline_queries_cache' = inline_queries_cache]_vars

C26_Witness ==
    /\ ev.handler = "inline_query" /\ ev.text = <<"a", "b", "c">>
    /\ ev.sent = <<"inline_result">>
    /\ ev.callback_data = <<"g", "p", "t", ":", "2">>
    /\ inline_queries_cache["2"] = <<"a", "b", "c">>
    /\ DOMAIN inline_queries_cache = {"1", "2"}

(***************************************************************************)
(* Termination and call bounds of the streaming loop (SpecStream).         *)
(***************************************************************************)
\* the loop took one pair of the stream
PairTaken == sm.phase = "streaming" /\ sm'.n = sm.n + 1

\* the platform calls made for the pair just taken
Calls == sm'.s.ops

CallsOf(kind) == {j \in 1..Len(Calls) : Calls[j].op = kind}

\* C27 as stated: whatever the platform calls answer, every step of the loop
\* consumes exactly one pair of the stream (so the loop ends with the
\* stream) and makes at most two platform calls for it (edit + send on
\* overflow, delete + send on the first chunk, one edit otherwise)
C27_LoopTerminates ==
    [][sm.phase = "streaming" => (PairTaken /\ Len(Calls) <= 2)]_vars

\* an edit repeated for the pair: the first asked for Markdown and was
\* rejected, the second carries the same text as plain text
PlainTextRetry ==
    \E j \in 1..(Len(Calls) - 1) :
       /\ Calls[j].op = "edit" /\ Calls[j].md /\ ~Calls[j].ok
       /\ Calls[j + 1] = [Calls[j] EXCEPT !.md = FALSE, !.ok = Calls[j + 1].ok]

\* what the loop does: one pair per step, at most one send, one delete and
\* one edit request per pair, the edit made a second time only as the plain
\* text retry of a rejected Markdown edit (three calls at most, on overflow)
LoopTerminatesWithRetry ==
    [][sm.phase = "streaming" =>
         /\ PairTaken
         /\ Len(Calls) <= 3
         /\ Cardinality(CallsOf("send")) <= 1
         /\ Cardinality(CallsOf("delete")) <= 1
         /\ Cardinality(CallsOf("edit")) <= 2
         /\ (Len(Calls) = 3 \/ Cardinality(CallsOf("edit")) = 2)
              => PlainTextRetry]_vars

\* an overflow split whose finalizing edit was repeated in plain text
C27_Witness ==
    /\ sm.phase = "streaming" /\ sm.n >= 2
    /\ Len(sm.s.ops) = 3
    /\ sm.s.ops[1].op = "edit" /\ ~sm.s.ops[1].ok
    /\ sm.s.ops[2].op = "edit" /\ sm.s.ops[2].ok
    /\ sm.s.ops[3].op = "send"

(***************************************************************************)
(* The backoff accumulator (SpecStream).                                   *)
(***************************************************************************)
\* the pair just taken went to the throttled edit (a first message was in
\* place and no overflow split was made) and the edit failed
ThrottledEditFailed ==
    /\ PairTaken
    /\ sm.s.i > 0
    /\ sm'.s.stream_chunk = sm.s.stream_chunk
    /\ Len(Calls) > 0
    /\ Calls[Len(Calls)].op = "edit" /\ ~Calls[Len(Calls)].ok

\* C28: backoff starts at 0 when the loop is entered; a failed throttled
\* edit (RetryAfter, TimedOut or any other failure) adds exactly 5 to it,
\* and no other step changes it: not a successful edit, not a failure of
\* the first send, not a failure of the edit or the send of an overflow
\* split. So it is 5 times the number of failed throttled edits, never
\* decreases and is never reset within the turn
C28_BackoffAccumulates ==
    [][/\ (sm.phase = "idle" /\ sm'.phase = "streaming") => sm'.s.backoff = 0
       /\ sm.phase = "streaming" =>
            sm'.s.backoff = sm.s.backoff
                            + (IF ThrottledEditFailed THEN BackoffStep ELSE 0)]_vars

\* a turn whose backoff grew twice, the second time on a timeout
C28_Witness ==
    /\ sm.n >= 3
    /\ sm.s.backoff = 2 * BackoffStep
    /\ sm.f.a = "timed_out"
    /\ Len(sm.s.ops) = 1 /\ ~sm.s.ops[1].ok

\* failures of the first send and of an overflow split left backoff at 0
BackoffUntouched ==
    /\ sm.phase = "streaming" /\ sm.n >= 2
    /\ sm.s.backoff = 0
    /\ Len(sm.s.ops) = 2
    /\ ~sm.s.ops[1].ok /\ ~sm.s.ops[2].ok

(***************************************************************************)
(* Pairs without visible text (SpecStream).                                *)
(***************************************************************************)
\* the pair just taken is a text pair whose trimmed text is empty
BlankPairTaken ==
    /\ PairTaken
    /\ sm'.phase # "direct_result"
    /\ Len(strip(RefText(sm'.len))) = 0

\* C29: a streamed pair whose trimmed text is empty changes none of i,
\* prev, sent_message, backoff and stream_chunk, leaves the bot's messages
\* as they are and causes no platform call
C29_BlankPairSkipped ==
    [][BlankPairTaken =>
         /\ Calls = <<>>
         /\ sm'.s.i = sm.s.i
         /\ sm'.s.prev = sm.s.prev
         /\ sm'.s.sent = sm.s.sent
         /\ sm'.s.backoff = sm.s.backoff
         /\ sm'.s.stream_chunk = sm.s.stream_chunk
         /\ sm'.s.msgs = sm.s.msgs]_vars

\* two pairs were taken, the second one blank, and the loop is where it began
C29_Witness ==
    /\ sm.phase = "streaming" /\ sm.n >= 2
    /\ sm.len = 1 /\ strip(RefText(sm.len)) = <<>>
    /\ sm.s.ops = <<>> /\ sm.s.i = 0 /\ sm.s.prev = <<>>

(***************************************************************************)
(* Markdown rendering of streamed texts (SpecStream).                      *)
(***************************************************************************)
\* the pair just taken carries the in-progress sentinel
InProgressPairTaken == PairTaken /\ sm'.phase = "streaming"

MarkdownRequested == \E j \in 1..Len(Calls) : Calls[j].md

\* C30: every send or edit made for a pair whose marker is the in-progress
\* sentinel (first message, throttled edit, overflow finalization of the
\* previous chunk, first inline edit) is plain text: Markdown rendering is
\* requested only for the pair whose marker indicates completion
C30_MarkdownOnlyOnCompletion ==
    [][InProgressPairTaken => ~MarkdownRequested]_vars

\* what the loop does: for an in-progress pair the first message and the
\* throttled edit are plain text, and Markdown is requested by the edit
\* that finalizes the previous chunk of an overflow split and by the
\* first edit of an inline answer
MarkdownOfInProgressPairs ==
    [][(InProgressPairTaken /\ MarkdownRequested) =>
          \/ sm'.s.stream_chunk # sm.s.stream_chunk
          \/ sm.mode = "inline" /\ sm.s.i = 0]_vars

(***************************************************************************)
(* The text left on screen by a finished stream (SpecStream).              *)
(***************************************************************************)
\* the texts of the bot's messages that were not deleted, in send order
RECURSIVE Remaining(_)
Remaining(msgs) ==
    IF msgs = <<>> THEN <<>>
    ELSE (IF Head(msgs).deleted THEN <<>> ELSE Head(msgs).text)
         \o Remaining(Tail(msgs))

\* a prompt or vision stream with visible text ended with its completion
\* marker and every platform call of the turn succeeded
StreamDelivered ==
    /\ sm.phase = "done" /\ sm.mode # "inline"
    /\ sm.calm
    /\ Len(strip(RefText(sm.len))) > 0

\* C40: when such a stream is finished, the texts of the bot's remaining
\* messages, concatenated in send order, are the final streamed text, also
\* when the first non-empty pair is longer than the limit and when the
\* text grows by more than one chunk between two pairs
C40_ContentPreserved ==
    StreamDelivered => Remaining(sm.s.msgs) = RefText(sm.len)

\* a stream whose text never exceeds the limit leaves the final text in
\* its one message
ShortContentPreserved ==
    (StreamDelivered /\ sm.len <= MsgLimit)
        => Remaining(sm.s.msgs) = RefText(sm.len)

\* a longer stream leaves, as its last message, the last chunk of the
\* final text
LastChunkPreserved ==
    (StreamDelivered /\ sm.len > MsgLimit)
        => /\ sm.s.msgs # <<>>
           /\ LET chunks == split_into_chunks(RefText(sm.len))
              IN  sm.s.msgs[Len(sm.s.msgs)].text = chunks[Len(chunks)]

(***************************************************************************)
(* The blocking branch of the inline callback (SpecInline).                *)
(***************************************************************************)
\* a button press whose identifier is in the cache, handled without
\* streaming
BlockingCallback ==
    /\ ev'.handler = "handle_callback_inline_query"
    /\ ~config.stream
    /\ startswith(ev'.text, CallbackPrefix)
    /\ drop(ev'.text, Len(CallbackPrefix)) \in DOMAIN inline_queries_cache

\* the awaited calls of the turn, in order
Trace == ev'.trace

RaisedAt(T) == {j \in 1..Len(T) : ~T[j].ok}

Named(T, e) == {j \in 1..Len(T) : T[j].e = e}

\* the final edit of a turn whose backend call returned: the answer, or
\* the cleanup followed by the notice for a Direct Result
FinalEdit(T) ==
    \/ Len(T) >= 3 /\ T[3].e = "answer" /\ ~ev'.dr
    \/ /\ Len(T) >= 4 /\ T[3].e = "cleanup" /\ ev'.dr
       /\ T[4].e = "function_unavailable_in_inline_mode"

\* C31: in the blocking branch the turn edits the 'loading' placeholder,
\* then calls the backend once, then makes the final edit (the answer, or
\* for a Direct Result the cleanup and the 'function unavailable' notice);
\* a placeholder edit that fails is followed by no backend call; and a
\* turn in which a call fails ends right after it with exactly one
\* failure-notice edit, a turn without a failure with none
C31_BlockingCallbackOrder ==
    [][BlockingCallback =>
         /\ Len(Trace) >= 2 /\ Trace[1].e = "loading"
         /\ Named(Trace, "loading") = {1}
         /\ Named(Trace, "backend") = IF Trace[1].ok THEN {2} ELSE {}
         /\ (Trace[1].ok /\ Trace[2].ok) => FinalEdit(Trace)
         /\ Named(Trace, "chat_fail") =
               IF RaisedAt(Trace) = {} THEN {} ELSE {Len(Trace)}
         /\ RaisedAt(Trace) \subseteq {Len(Trace) - 1}
         /\ Len(Trace) <= 5
         /\ ev'.backend = Cardinality(Named(Trace, "backend"))]_vars

\* a Direct Result cleaned up and answered with the notice, and a
\* placeholder edit that failed
C31_Witness ==
    /\ ev.handler = "handle_callback_inline_query"
    /\ ~config.stream /\ ev.dr /\ ev.cleanup = 1
    /\ Len(ev.trace) = 4 /\ ev.trace[4].ok
    /\ ev.trace[4].e = "function_unavailable_in_inline_mode"

PlaceholderFailed ==
    /\ ev.handler = "handle_callback_inline_query"
    /\ ~config.stream /\ ev.backend = 0
    /\ Len(ev.trace) = 2 /\ ~ev.trace[1].ok /\ ev.trace[2].e = "chat_fail"

FinalEditFailed ==
    /\ ev.handler = "handle_callback_inline_query"
    /\ ~config.stream /\ ev.backend = 1
    /\ Len(ev.trace) = 4 /\ ev.trace[3].e = "answer" /\ ~ev.trace[3].ok
    /\ ev.trace[4].e = "chat_fail"

(***************************************************************************)
(* The token count of vision (SpecMedia).                                  *)
(***************************************************************************)
\* vision called the backend and the call returned text (no exception, no
\* Direct Result), so _execute goes on to add_vision_tokens
VisionReachesUsage ==
    /\ ev.handler = "vision" /\ ev.backend = 1
    /\ ~ev.dr /\ ev.reported > 0

\* the blocking interpretation raised: the failure notice is the only thing
\* said after the backend call, and no reply was attempted
VisionBackendFailed ==
    /\ ev.handler = "vision" /\ ~ev.stream /\ ev.backend = 1
    /\ ev.answers = 0 /\ ev.reported = 0
    /\ ev.sent # <<>> /\ ev.sent[Len(ev.sent)] = "vision_fail"

\* C32: on every path of vision._execute that reaches add_vision_tokens
\* the token count has been assigned, so the call raises nothing; and a
\* failed blocking interpretation ends with the failure message, no usage
\* recorded and no exception leaving the handler
C32_VisionTokensDefined ==
    /\ VisionReachesUsage => ~ev.raised
    /\ VisionBackendFailed => (ev.tracker = <<>> /\ ~ev.raised)

\* what the blocking failure does: the failure message is sent, no usage
\* is recorded, and the read of the unassigned total_tokens raises
VisionBackendFailureRaises ==
    VisionBackendFailed => (ev.tracker = <<>> /\ ev.raised)

\* with the blocking call, a returned interpretation always has its tokens
VisionBlockingTokensDefined ==
    (VisionReachesUsage /\ ~ev.stream) => ~ev.raised

(***************************************************************************)
(* Disabled features (SpecGate).                                           *)
(***************************************************************************)
\* the feature flag each of the four handlers reads first
FeatureFlag(handler) ==
    CASE handler = "image"      -> config.enable_image_generation
      [] handler = "tts"        -> config.enable_tts_generation
      [] handler = "transcribe" -> config.enable_transcription
      [] handler = "vision"     -> config.enable_vision
      [] OTHER                  -> TRUE

\* C33: with its feature flag off, image, tts, transcribe or vision returns
\* without evaluating the gate: it sends nothing to an allowed or a denied
\* user, calls no backend and changes no orchestrator state
C33_DisabledFeatureDoesNothing ==
    [][~FeatureFlag(ev'.handler) =>
         /\ ev'.gate = "none"
         /\ ev'.sent = <<>> /\ ev'.ops = <<>>
         /\ ev'.backend = 0 /\ ev'.answers = 0 /\ ev'.direct = 0
         /\ ev'.files = {}
         /\ usage' = usage
         /\ last_message' = last_message
         /\ inline_queries_cache' = inline_queries_cache
         /\ issued' = issued]_vars

\* a user outside the allow-list sent a photo while vision was disabled,
\* and nothing was sent back
C33_Witness ==
    /\ ev.handler = "vision" /\ ev.user = Stranger
    /\ ~config.enable_vision
    /\ ev.gate = "none" /\ ev.sent = <<>>

(***************************************************************************)
(* Plugin activation and lookup order (SpecPlugins).                       *)
(***************************************************************************)
\* the configured names that have an implementation: the alias of
\* wolfram_alpha and the two modules without alias
Implemented == {"wolfram", "weather", "dice"}

\* positions of the configuration that name an implementation
Kept == {j \in 1..Len(config.plugins) : config.plugins[j] \in Implemented}

\* the configured names at those positions, in configuration order
Activated ==
    [i \in 1..Cardinality(Kept) |->
        config.plugins[CHOOSE j \in Kept :
                          Cardinality({k \in Kept : k <= j}) = i]]

\* positions of the activated plugins that declare the function name
DeclaringAt(function_name) ==
    {j \in 1..Len(Activated) : function_name \in Elems(get_spec(Activated[j]))}

First(S) == CHOOSE j \in S : \A k \in S : j <= k

ErrorObject(function_name) ==
    <<"{", "error", ":", "Function " \o function_name \o " not found", "}">>

\* C34: PluginManager.plugins is the sequence of configured names that
\* have an implementation, in configuration order, without the empty and
\* the unknown names; call_function executes, and get_plugin_source_name
\* names, the first activated plugin that declares the function name; and
\* get_plugin_source_name returns '' exactly when call_function returns
\* the error object
C34_PluginOrder ==
    /\ PluginManager(config) = Activated
    /\ ev.handler = "call_function" =>
         LET hits == DeclaringAt(ev.function_name)
         IN  /\ \A j \in 1..Len(ev.out.executed) :
                   hits # {} /\ ev.out.executed[j].plugin = First(hits)
             /\ ev.source = IF hits = {} THEN ""
                            ELSE get_source_name(Activated[First(hits)])
             /\ ev.source = ""
                  <=> (~ev.out.raised
                       /\ ev.out.result = ErrorObject(ev.function_name))

\* two activated plugins declare the function called; the first of them
\* ran and gave its name
C34_Witness ==
    /\ ev.handler = "call_function" /\ ev.function_name = "lookup"
    /\ config.plugins = <<"dice", "weather">>
    /\ Len(ev.out.executed) = 1 /\ ev.out.executed[1].plugin = 1
    /\ ev.source = "Dice"

\* an unknown name configured before a plugin is dropped, and the plugin
\* is the first of the activated ones
UnknownNameDropped ==
    /\ ev.handler = "call_function" /\ ev.function_name = "lookup"
    /\ config.plugins = <<"wolfram_alpha", "weather">>
    /\ Len(ev.out.executed) = 1 /\ ev.out.executed[1].plugin = 1
    /\ ev.source = "Weather"

(***************************************************************************)
(* The gate and the inline follow-up (SpecInline).                         *)
(***************************************************************************)
\* the user who pressed the button is allowed and within budget when the
\* callback starts
CallbackUserPasses ==
    /\ is_allowed(config, ev'.user)
    /\ is_within_budget(config, usage, ev'.user)

\* C39: over any sequence of inline queries, usage recordings and
\* callbacks, handle_callback_inline_query calls the backend only for a
\* user who is allowed and within budget at the time of the callback
C39_CallbackBackendGated ==
    [][(ev'.handler = "handle_callback_inline_query" /\ ev'.backend > 0)
          => CallbackUserPasses]_vars

\* what the callback does: it consults no gate and sends neither of the
\* gate's notifications, whoever presses the button
CallbackConsultsNoGate ==
    [][ev'.handler = "handle_callback_inline_query"
          => /\ ev'.gate = "none"
             /\ \A j \in 1..Len(ev'.sent) :
                   ev'.sent[j] \notin {"disallowed", "budget_limit"}]_vars

(***************************************************************************)
(* Claims about concurrent tasks (SpecTasks).                              *)
(***************************************************************************)
\* the callback tasks that carry the identifier
CallbacksOf(key) ==
    {t \in 1..Len(tasks) : tasks[t].kind = "callback" /\ tasks[t].key = key}

\* C35: of the handle_callback_inline_query tasks that carry one
\* identifier, at most one finds it in the cache and calls the backend;
\* the others take the 'try again' path and call nothing, so a cache entry
\* yields at most one backend call and one usage recording
C35_OneCallbackPerEntry ==
    \A id \in 1..MaxIds :
       LET ts == CallbacksOf(str(id))
       IN  /\ Cardinality({t \in ts : tasks[t].hit}) <= 1
           /\ Cardinality({t \in ts : tasks[t].pc = "backend"
                                      \/ tasks[t].backend > 0}) <= 1
           /\ \A t \in ts : ~tasks[t].hit =>
                 (tasks[t].pc \in {"notice", "done"} /\ tasks[t].backend = 0)
           /\ \A t \in ts : tasks[t].hit => str(id) \notin DOMAIN inline_queries_cache

\* three presses of one button: the first called the backend, the other
\* two were told to try again
C35_Witness ==
    /\ Len(tasks) = 3
    /\ \A t \in 1..3 : tasks[t].kind = "callback" /\ tasks[t].key = str(1)
    /\ tasks[1].hit /\ tasks[1].backend = 1
    /\ ~tasks[2].hit /\ ~tasks[3].hit /\ tasks[3].pc = "done"

\* the resend tasks, and the step in which one of them resumes after
\* is_allowed and replays (Replays) or finds nothing (FindsNothing)
ResendTasks == {t \in 1..Len(tasks) : tasks[t].kind = "resend"}

Replays(t) == tasks[t].pc = "is_allowed" /\ tasks'[t].hit

FindsNothing(t) ==
    tasks[t].pc = "is_allowed" /\ tasks'[t].pc # "is_allowed" /\ ~tasks'[t].hit

\* C36: for any interleaving of resend and prompt tasks of one chat, the
\* pop of resend finds the key its membership test found, and each cached
\* value is replayed by at most one resend task
C36_ResendReplaysOnce ==
    [][/\ \A t \in ResendTasks : Replays(t) => ListedUser \in DOMAIN last_message
       /\ \A t1, t2 \in ResendTasks :
             (t1 # t2 /\ tasks'[t1].hit /\ tasks'[t2].hit)
                => tasks'[t1].text # tasks'[t2].text]_vars

\* what resend does: the test, the read and the removal of the entry are
\* one step, so the pop finds its key and an entry (one write of
\* last_message[chat]) is replayed by one resend task; the text can be
\* replayed again once the prompt call of that task has written it back
ResendConsumesEntry ==
    [][\A t \in ResendTasks :
          /\ Replays(t) => /\ ListedUser \in DOMAIN last_message
                           /\ tasks'[t].text = last_message[ListedUser]
                           /\ ListedUser \notin DOMAIN last_message'
          /\ FindsNothing(t) => /\ ListedUser \notin DOMAIN last_message
                                /\ last_message' = last_message]_vars

\* two resend tasks waited together after a prompt: one replayed the
\* text and waits at the gate of prompt, the other found nothing
C36_Witness ==
    /\ Len(tasks) = 3 /\ tasks[1].kind = "prompt"
    /\ tasks[2].kind = "resend" /\ tasks[3].kind = "resend"
    /\ tasks[3].hit /\ tasks[3].pc = "gate" /\ tasks[3].text = tasks[1].text
    /\ ~tasks[2].hit /\ tasks[2].pc = "done"
    /\ ListedUser \notin DOMAIN last_message

\* the same text replayed by two resend tasks
ReplayedTwice ==
    /\ Len(tasks) = 3 /\ tasks[1].kind = "prompt"
    /\ tasks[2].hit /\ tasks[3].hit
    /\ tasks[2].text = tasks[1].text /\ tasks[3].text = tasks[1].text

\* the step in which a task resumes after the gate of prompt and writes
\* the cache
Writes(t) == tasks[t].pc = "gate" /\ tasks'[t].pc = "backend"

PromptTasks == {t \in 1..Len(tasks) : tasks[t].kind = "prompt"}

\* C37: the cache write of a prompt task sets last_message[chat] to the
\* text of that task whatever the other tasks did, and nothing but such a
\* write or the pop of a resend changes the cache: once concurrent prompt
\* tasks are past their writes, with no resend among the tasks, the entry
\* exists and holds the text of the task that wrote last, which need not
\* be the task that started last
C37_LastWriterWins ==
    [][/\ \A t \in 1..Len(tasks) :
             Writes(t) => /\ ListedUser \in DOMAIN last_message'
                          /\ last_message'[ListedUser] = tasks[t].text
       /\ last_message' # last_message
             => \E t \in 1..Len(tasks) : Writes(t) \/ Replays(t)
       /\ (/\ ResendTasks = {}
           /\ PromptTasks # {}
           /\ \A t \in PromptTasks : tasks'[t].pc \in {"backend", "done"})
             => /\ ListedUser \in DOMAIN last_message'
                /\ \E t \in PromptTasks :
                      last_message'[ListedUser] = tasks[t].text]_vars

\* two prompt tasks ran together and the one that started first wrote last
C37_Witness ==
    /\ Len(tasks) >= 2
    /\ tasks[1].kind = "prompt" /\ tasks[2].kind = "prompt"
    /\ tasks[1].pc = "done" /\ tasks[2].pc = "done"
    /\ ResendTasks = {}
    /\ ListedUser \in DOMAIN last_message
    /\ last_message[ListedUser] = tasks[1].text
    /\ tasks[1].text # tasks[2].text

TranscribeTasks == {t \in 1..Len(tasks) : tasks[t].kind = "transcribe"}

\* the temporary files a transcribe task has created and not yet cleaned
\* up: the download before the conversion, both files while the backend
\* transcribes
FilesOf(t) ==
    CASE tasks[t].pc = "convert"      -> {"file"}
      [] tasks[t].pc = "transcribing" -> {"file", "mp3"}
      [] OTHER                        -> {}

\* C38: when transcribe tasks run concurrently for attachments with one
\* file_unique_id, no task deletes a temporary file another task still
\* has to read: the files of each task exist from their creation until
\* the cleanup of that task
C38_TempFilesIsolated ==
    \A t \in TranscribeTasks : FilesOf(t) \subseteq disk

\* a transcribe task that runs alone keeps its files until its cleanup
TempFilesOfOneTask ==
    Cardinality(TranscribeTasks) = 1
        => \A t \in TranscribeTasks : FilesOf(t) \subseteq disk

\* a task found its download gone and reported a failure
DownloadLost ==
    \E t \in TranscribeTasks : tasks[t].failed /\ tasks[t].backend = 0
(***************************************************************************)
(* Claims about the streaming loop (SpecStream).                           *)
(***************************************************************************)
\* the turn's stream ended with its final pair, in prompt or vision, after
\* the text crossed the length limit once while a first message existed
OverflowTurn ==
    /\ sm.phase = "done"
    /\ sm.mode \in {"prompt", "vision"}
    /\ sm.cross = "with_first"
    /\ sm.len <= 2 * MsgLimit

\* exactly two messages: the first chunk, then the remainder
SplitInTwo ==
    /\ Len(sm.s.msgs) = 2
    /\ \A j \in 1..2 : ~sm.s.msgs[j].deleted
    /\ sm.s.msgs[1].text = take(RefText(sm.len), MsgLimit)
    /\ sm.s.msgs[2].text = drop(RefText(sm.len), MsgLimit)

C6_FinalMarkerCaptured ==
    (sm.phase = "done" /\ Len(strip(RefText(sm.len))) > 0)
        => sm.s.total_tokens = sm.tokens

====
